---------------------------- MODULE Spec2Model ----------------------------
(***************************************************************************)
(* Model of the WASM fuzzing harness: the file processor                   *)
(* processWasmFileWithRuntime (part_005), the batch runner               *)
(* runFuzzerWithRuntime and file discovery collectWasmFiles                *)
(* (main_stub.go), over the types of types.go; the command-line driver     *)
(* main (main.go), specified by SpecMain; Close on the two module types,   *)
(* specified by SpecRelease; and the four-stage file processor             *)
(* processWasmFile (main.go), specified by SpecStages.                     *)
(*                                                                         *)
(* Strings are sequences of tokens, so that formatting (fmt.Sprintf) is    *)
(* concatenation and "contains"/"is empty" are checkable.  A path is a     *)
(* sequence of components, a file name a sequence of tokens in which "."   *)
(* is a token of its own.  An error value is its chain of layers, the      *)
(* outermost first; the nil error is the empty chain.                      *)
(***************************************************************************)
EXTENDS Integers, Sequences, FiniteSets, TLC

VARIABLES
    dirPath,    \* argument of runFuzzerWithRuntime
    fsEntries,  \* what os.ReadDir(dirPath) yields: the entries, sorted by name
    fsErr,      \* what os.ReadDir(dirPath) yields: the error (Nil if none)
    pc,         \* position of runFuzzerWithRuntime
    files,      \* local `files` of runFuzzerWithRuntime
    idx,        \* 1-based position of the range loop over files
    report,     \* local `report` of runFuzzerWithRuntime
    retErr,     \* the error runFuzzerWithRuntime returns
    ppc,        \* position of processWasmFileWithRuntime
    result,     \* named result of processWasmFileWithRuntime
    module,     \* local `module` (0 is the nil interface)
    defers,     \* pending deferred calls, the next to run first
    panicking,  \* the panic in flight, if any
    log,        \* the calls made on the runtime boundary, in order
    args,       \* os.Args of the command-line driver
    mpc,        \* position of main
    mdefers,    \* main's pending deferred calls
    mainPanic,  \* the panic in flight in main, if any
    recovers,   \* how many times main's recover() returned a panic value
    stdout,     \* what the process wrote to standard output, in order
    stderr,     \* what the process wrote to standard error, in order
    exitCode,   \* the exit status of the process
    handle,     \* a module handle on which Close is called
    closeCalls, \* how many times Close was called on it
    closeOut    \* how the latest Close ended

batchVars == <<dirPath, fsEntries, fsErr, pc, files, idx, report, retErr,
               ppc, result, module, defers, panicking, log>>

mainVars == <<args, mpc, mdefers, mainPanic, recovers, stdout, stderr, exitCode>>

releaseVars == <<handle, closeCalls, closeOut>>

vars == <<batchVars, mainVars, releaseVars>>

(***************************************************************************)
(* Bounds                                                                  *)
(***************************************************************************)
MaxEntries == 3

\* how many times Close is called on one handle
MaxCloseCalls == 4

\* how many deferred Release calls of the SDK panic in one run
MaxReleasePanics == 1

\* how many entries the directory given to the command-line driver holds
MaxMainEntries == 1

(***************************************************************************)
(* types.go: FailureStage                                                  *)
(***************************************************************************)
StageNone == "none"
StageLoad == "load"
StageValidate == "validate"
StageInstantiate == "instantiate"
StageExecute == "execute"

FailureStages == {StageLoad, StageValidate, StageInstantiate, StageExecute}

\* FailureStage is a string type: a RuntimeError may carry any string.
StageCustom == "link"

(***************************************************************************)
(* Error values                                                            *)
(***************************************************************************)
Nil == <<>>

Layer(t, s, m, c) == [type |-> t, Stage |-> s, Message |-> m, Cause |-> c]

\* errors.New(text)
NewError(text) == <<Layer("plain", "", text, <<>>)>>

\* &RuntimeError{Stage: s, Message: m, Cause: c}; c is the text of the cause
NewRuntimeError(s, m, c) == <<Layer("RuntimeError", s, m, c)>>

\* (*RuntimeError)(nil) stored in an error interface: a non-nil error
NilRuntimeError == <<Layer("nilRuntimeError", "", <<>>, <<>>)>>

\* fmt.Errorf(prefix + "%w", err)
Wrap(prefix, err) == <<Layer("wrap", "", prefix, <<>>)>> \o err

\* (*RuntimeError).Error
RuntimeErrorText(e) ==
    IF e.Cause # <<>>
    THEN <<e.Stage, ": ">> \o e.Message \o <<": ">> \o e.Cause
    ELSE <<e.Stage, ": ">> \o e.Message

\* err.Error() as %v prints it
RECURSIVE ErrorText(_)
ErrorText(err) ==
    IF err = Nil THEN <<"<nil>">>
    ELSE LET e == Head(err) IN
         CASE e.type = "plain" -> e.Message
           [] e.type = "wrap" -> e.Message \o ErrorText(Tail(err))
           [] e.type = "RuntimeError" -> RuntimeErrorText(e)
           [] OTHER -> <<"<nil>">>

\* errors.As(err, &runtimeErr): the first layer of type *RuntimeError in the
\* chain (RuntimeError has no Unwrap, so its Cause is not searched);
\* 0 when there is none.
RECURSIVE AsIndex(_, _)
AsIndex(err, i) ==
    IF i > Len(err) THEN 0
    ELSE IF err[i].type \in {"RuntimeError", "nilRuntimeError"} THEN i
    ELSE AsIndex(err, i + 1)

ErrorsAs(err) == AsIndex(err, 1)


(***************************************************************************)
(* Paths (path/filepath) and the directory listing (os.ReadDir)            *)
(***************************************************************************)
Dot == "."
WasmExt == <<Dot, "wasm">>

\* filepath.Ext(name): the suffix beginning at the final dot, "" if none
RECURSIVE ExtFrom(_, _)
ExtFrom(name, i) ==
    IF i < 1 THEN <<>>
    ELSE IF name[i] = Dot THEN SubSeq(name, i, Len(name))
    ELSE ExtFrom(name, i - 1)

Ext(name) == ExtFrom(name, Len(name))

\* the components "." and ".."
IsDotComponent(c) == c = <<Dot>>
IsDotDotComponent(c) == c = <<Dot, Dot>>

\* A path is the sequence of its elements between separators, so that a
\* leading separator shows as an empty first element: "/tmp/corpus" is
\* <<"", "tmp", "corpus">> and "/" is <<"", "">>.  The empty path "" is <<>>
\* (or its one empty element).
Rooted(path) == Len(path) >= 2 /\ path[1] = <<>>

\* the root "/"
Root == << <<>>, <<>> >>

\* the loop of filepath.Clean, element by element: an empty element and "."
\* are dropped; ".." takes away the element before it, is dropped at the
\* root, and is kept in a path that is not rooted when there is no element
\* to take away or when that one is ".." itself
RECURSIVE CleanFrom(_, _, _, _)
CleanFrom(path, i, out, rooted) ==
    IF i > Len(path) THEN out
    ELSE IF path[i] = <<>> \/ IsDotComponent(path[i])
    THEN CleanFrom(path, i + 1, out, rooted)
    ELSE IF IsDotDotComponent(path[i])
    THEN IF out # <<>> /\ ~IsDotDotComponent(out[Len(out)])
         THEN CleanFrom(path, i + 1, SubSeq(out, 1, Len(out) - 1), rooted)
         ELSE IF ~rooted
         THEN CleanFrom(path, i + 1, Append(out, path[i]), rooted)
         ELSE CleanFrom(path, i + 1, out, rooted)
    ELSE CleanFrom(path, i + 1, Append(out, path[i]), rooted)

\* filepath.Clean(path): the shortest equivalent path; a rooted path stays
\* rooted, "/" when nothing is left of it; "." when nothing is left of a
\* path that is not rooted
Clean(path) ==
    LET out == CleanFrom(path, 1, <<>>, Rooted(path)) IN
        IF Rooted(path)
        THEN IF out = <<>> THEN Root ELSE << <<>> >> \o out
        ELSE IF out = <<>> THEN << <<Dot>> >> ELSE out

\* the path is the empty string
IsEmptyPath(path) == path = <<>> \/ path = << <<>> >>

\* filepath.Join(dirPath, name): the non-empty elements, joined by a
\* separator and cleaned; "" when all are empty
Join(dir, name) ==
    IF IsEmptyPath(dir) /\ name = <<>> THEN <<>>
    ELSE IF IsEmptyPath(dir) THEN Clean(<<name>>)
    ELSE IF name = <<>> THEN Clean(dir)
    ELSE Clean(dir \o <<name>>)

\* filepath.Base(path): the last element, trailing separators apart; "." for
\* the empty path, "/" for a path of separators only
Base(path) ==
    LET names == SelectSeq(path, LAMBDA c : c # <<>>) IN
        IF IsEmptyPath(path) THEN <<Dot>>
        ELSE IF names = <<>> THEN <<"/">>
        ELSE names[Len(names)]

Entry(n, d) == [name |-> n, isDir |-> d]

\* The entries a directory may hold, in the order os.ReadDir sorts them
\* (by file name): .wasm  a.wasm  b  c.wasm/  d.tar.wasm  e.txt
EntryUniverse ==
    << Entry(<<Dot, "wasm">>, FALSE),
       Entry(<<"a", Dot, "wasm">>, FALSE),
       Entry(<<"b">>, FALSE),
       Entry(<<"c", Dot, "wasm">>, TRUE),
       Entry(<<"d", Dot, "tar", Dot, "wasm">>, FALSE),
       Entry(<<"e", Dot, "txt">>, FALSE) >>

RECURSIVE Pick(_, _)
Pick(S, i) ==
    IF i > Len(EntryUniverse) THEN <<>>
    ELSE IF i \in S THEN <<EntryUniverse[i]>> \o Pick(S, i + 1)
    ELSE Pick(S, i + 1)

Listings ==
    { Pick(S, 1) : S \in { T \in SUBSET (1..Len(EntryUniverse)) :
                              Cardinality(T) <= MaxEntries } }

\* the directory argument: "./corpus"
DirPaths == { << <<Dot>>, <<"corpus">> >> }

ReadDirErrors == { Nil, NewError(<<"open corpus: no such file or directory">>) }

\* collectWasmFiles, the loop over entries (main_stub.go:22-30)
RECURSIVE CollectLoop(_, _, _, _)
CollectLoop(dir, entries, i, acc) ==
    IF i > Len(entries) THEN acc
    ELSE IF entries[i].isDir THEN CollectLoop(dir, entries, i + 1, acc)
    ELSE IF Ext(entries[i].name) = WasmExt
         THEN CollectLoop(dir, entries, i + 1, Append(acc, Join(dir, entries[i].name)))
    ELSE CollectLoop(dir, entries, i + 1, acc)

\* mutant of collectWasmFiles: the error of os.ReadDir is dropped and the
\* entries read before it are used
collectWasmFilesIgnoreErr(dir, entries, err) ==
    [files |-> CollectLoop(dir, entries, 1, <<>>), err |-> Nil]

\* collectWasmFiles(dirPath), given what os.ReadDir returned
collectWasmFiles(dir, entries, err) ==
    IF err # Nil
    THEN [files |-> <<>>, err |-> Wrap(<<"failed to read directory: ">>, err)]
    ELSE [files |-> CollectLoop(dir, entries, 1, <<>>), err |-> Nil]

(***************************************************************************)
(* types.go: ExecutionResult, FuzzingReport                                *)
(***************************************************************************)
\* ExecutionResult{}: the zero value
ZeroResult ==
    [FilePath |-> <<>>,
     FileName |-> <<>>,
     Success |-> FALSE,
     FailureStage |-> "",
     ErrorMessage |-> <<>>,
     ReturnValues |-> <<>>]

\* mutant of InitResult: the result is a variable shared by all calls, of
\* which only the three fields set at part_005:89-91 are reset
InitResultStale(filePath) ==
    [result EXCEPT !.FilePath = filePath,
                   !.FileName = Base(filePath),
                   !.FailureStage = StageNone]

\* the zero ExecutionResult with the three fields set at part_005:89-91
InitResult(filePath) ==
    [FilePath |-> filePath,
     FileName |-> Base(filePath),
     Success |-> FALSE,
     FailureStage |-> StageNone,
     ErrorMessage |-> <<>>,
     ReturnValues |-> <<>>]

\* mutant of InitReport: the failure counts are not zero-initialised
InitReportNoKeys ==
    [TotalFiles |-> 0,
     Passed |-> 0,
     Failed |-> 0,
     Results |-> <<>>,
     FailureCounts |-> [s \in {} |-> 0]]

\* the report of main_stub.go:37-46
InitReport ==
    [TotalFiles |-> 0,
     Passed |-> 0,
     Failed |-> 0,
     Results |-> <<>>,
     FailureCounts |-> [s \in FailureStages |-> 0]]

\* m[k]++ on a Go map: a missing key reads as 0 and is added
MapIncr(m, k) ==
    [s \in DOMAIN m \cup {k} |-> IF s = k
                                 THEN (IF k \in DOMAIN m THEN m[k] ELSE 0) + 1
                                 ELSE m[s]]

\* mutant of Aggregate: the result is put in front of the earlier results
AggregatePrepend(rep, res) ==
    IF res.Success
    THEN [rep EXCEPT !.Results = <<res>> \o @, !.Passed = @ + 1]
    ELSE [rep EXCEPT !.Results = <<res>> \o @, !.Failed = @ + 1,
                     !.FailureCounts = MapIncr(@, res.FailureStage)]

\* the loop body of main_stub.go:59-66
Aggregate(rep, res) ==
    IF res.Success
    THEN [rep EXCEPT !.Results = Append(@, res), !.Passed = @ + 1]
    ELSE [rep EXCEPT !.Results = Append(@, res), !.Failed = @ + 1,
                     !.FailureCounts = MapIncr(@, res.FailureStage)]

(***************************************************************************)
(* processWasmFileWithRuntime: the pieces between the runtime calls        *)
(***************************************************************************)
NoPanic == [active |-> FALSE, value |-> <<>>]
Panic(v) == [active |-> TRUE, value |-> v]

\* the runtime error of a nil pointer dereference, as %v prints it
NilDeref == <<"runtime error: invalid memory address or nil pointer dereference">>

\* mutant of ClassifyLoad: the text of an untagged error is not reported
ClassifyLoadNoText(res, err) ==
    LET i == ErrorsAs(err)
        failed == [res EXCEPT !.Success = FALSE]
    IN  IF i # 0
        THEN IF err[i].type = "nilRuntimeError"
             THEN [res |-> failed, panic |-> Panic(NilDeref)]
             ELSE [res |-> [failed EXCEPT !.FailureStage = err[i].Stage,
                                          !.ErrorMessage = err[i].Message],
                   panic |-> NoPanic]
        ELSE [res |-> [failed EXCEPT !.FailureStage = StageLoad,
                                     !.ErrorMessage = <<"load failed">>],
              panic |-> NoPanic]

\* the error branch after LoadModule (part_005:104-116): the result, and
\* the panic raised when runtimeErr is a nil pointer
ClassifyLoad(res, err) ==
    LET i == ErrorsAs(err)
        failed == [res EXCEPT !.Success = FALSE]
    IN  IF i # 0
        THEN IF err[i].type = "nilRuntimeError"
             THEN [res |-> failed, panic |-> Panic(NilDeref)]
             ELSE [res |-> [failed EXCEPT !.FailureStage = err[i].Stage,
                                          !.ErrorMessage = err[i].Message],
                   panic |-> NoPanic]
        ELSE [res |-> [failed EXCEPT !.FailureStage = StageLoad,
                                     !.ErrorMessage = <<"load failed: ">> \o ErrorText(err)],
              panic |-> NoPanic]

\* mutant of ClassifyExecute: the stage tag of the error is ignored
ClassifyExecuteUntagged(res, err) ==
    [res |-> [res EXCEPT !.Success = FALSE,
                         !.FailureStage = StageExecute,
                         !.ErrorMessage = <<"execution failed: ">> \o ErrorText(err)],
     panic |-> NoPanic]

\* the error branch after Execute (part_005:121-132)
ClassifyExecute(res, err) ==
    LET i == ErrorsAs(err)
        failed == [res EXCEPT !.Success = FALSE]
    IN  IF i # 0
        THEN IF err[i].type = "nilRuntimeError"
             THEN [res |-> failed, panic |-> Panic(NilDeref)]
             ELSE [res |-> [failed EXCEPT !.FailureStage = err[i].Stage,
                                          !.ErrorMessage = err[i].Message],
                   panic |-> NoPanic]
        ELSE [res |-> [failed EXCEPT !.FailureStage = StageExecute,
                                     !.ErrorMessage = <<"execution failed: ">> \o ErrorText(err)],
              panic |-> NoPanic]

\* mutant of Succeed: the values Execute returned are stored in reverse
SucceedReversed(res, returns) ==
    [res EXCEPT !.Success = TRUE,
                !.ReturnValues = [k \in 1..Len(returns) |-> returns[Len(returns) + 1 - k]]]

\* the success path (part_005:135-137)
Succeed(res, returns) ==
    [res EXCEPT !.Success = TRUE, !.ReturnValues = returns]

\* mutant of Recovered: the recovery closure builds its result afresh
RecoveredZeroed(res, r) ==
    [ZeroResult EXCEPT !.Success = FALSE,
                       !.FailureStage = StageExecute,
                       !.ErrorMessage = <<"panic recovered: ">> \o r]

\* mutant of Recovered: the stage is left as it was when the panic came
RecoveredKeepStage(res, r) ==
    [res EXCEPT !.Success = FALSE,
                !.ErrorMessage = <<"panic recovered: ">> \o r]

\* the body of the deferred recovery closure when recover() is non-nil
\* (part_005:96-98)
Recovered(res, r) ==
    [res EXCEPT !.Success = FALSE,
                !.FailureStage = StageExecute,
                !.ErrorMessage = <<"panic recovered: ">> \o r]

\* mutant of DefersAtEntry: no recovery closure is deferred
DefersAtEntryNone == <<>>

\* the deferred calls pending once part_005:94-100 has run
DefersAtEntry == <<"recover">>

\* mutant of DeferClose: Close would run after the recovery closure
DeferCloseAfterRecover(ds) == ds \o <<"close">>

\* mutant of DeferClose: Close is not deferred at all
DeferCloseOmitted(ds) == ds

\* defer module.Close() (part_005:117): deferred calls run last-in first-out
DeferClose(ds) == <<"close">> \o ds

(***************************************************************************)
(* The runtime boundary (WasmRuntime, WasmModule): what a call may do      *)
(***************************************************************************)
NoHandle == 0

PanicValues == { <<"corrupted state">>, <<"42">> }

ErrorValues ==
    { NewError(<<"permission denied">>) }
    \cup { NewRuntimeError(s, <<"bad module">>, <<>>) :
               s \in {StageNone, StageLoad, StageExecute, StageCustom} }
    \cup { NewRuntimeError(StageValidate, <<>>, <<>>),
           NewRuntimeError(StageInstantiate, <<"import">>, <<"missing env">>),
           Wrap(<<"ctx: ">>, NewRuntimeError(StageValidate, <<"wrapped">>, <<>>)),
           NilRuntimeError }

ReturnValueSets == { <<>>, <<42, 7>> }

\* the errors LoadModule returns together with a module
ErrorsWithModule ==
    { NewError(<<"permission denied">>),
      NewRuntimeError(StageInstantiate, <<"import">>, <<"missing env">>) }

\* LoadModule(filePath) (WasmModule, error): returns a module, returns an
\* error, returns both, returns neither, or panics
LoadOutcomes ==
    { [handle |-> TRUE, err |-> Nil, panic |-> NoPanic],
      [handle |-> FALSE, err |-> Nil, panic |-> NoPanic] }
    \cup { [handle |-> FALSE, err |-> e, panic |-> NoPanic] : e \in ErrorValues }
    \cup { [handle |-> TRUE, err |-> e, panic |-> NoPanic] : e \in ErrorsWithModule }
    \cup { [handle |-> FALSE, err |-> Nil, panic |-> Panic(v)] : v \in PanicValues }

\* Execute(funcName, args...) ([]interface{}, error)
ExecuteOutcomes ==
    { [returns |-> r, err |-> Nil, panic |-> NoPanic] : r \in ReturnValueSets }
    \cup { [returns |-> <<>>, err |-> e, panic |-> NoPanic] : e \in ErrorValues }
    \cup { [returns |-> <<2>>, err |-> NewError(<<"trap">>), panic |-> NoPanic] }
    \cup { [returns |-> <<>>, err |-> Nil, panic |-> Panic(v)] : v \in PanicValues }

\* Close()
ClosePanicValue == <<"release failed">>
CloseOutcomes == { [panic |-> NoPanic], [panic |-> Panic(ClosePanicValue)] }

\* a call on the runtime boundary: which call of the file processor made it,
\* on which handle, with which argument, and what the runtime did
Event(o, c, h, a, out) == [op |-> o, call |-> c, handle |-> h, arg |-> a, out |-> out]

\* mutant of ExecuteArgs: another export is called, with another argument
ExecuteArgsOther == <<"main", 0>>

\* module.Execute("process", int32(1)) (part_005:120)
ExecuteArgs == <<"process", 1>>

(***************************************************************************)
(* runFuzzerWithRuntime up to the loop (main_stub.go:37-54)                *)
(***************************************************************************)
\* mutant of RunStart: TotalFiles counts the directory entries, not the
\* files collected
RunStartCountEntries(dir, entries, err) ==
    LET c == collectWasmFiles(dir, entries, err) IN
    IF c.err # Nil
    THEN [report |-> InitReport, files |-> c.files, err |-> c.err, pc |-> "done"]
    ELSE [report |-> [InitReport EXCEPT !.TotalFiles = Len(entries)],
          files |-> c.files, err |-> Nil, pc |-> "loop"]

RunStart(dir, entries, err) ==
    LET c == collectWasmFiles(dir, entries, err) IN
    IF c.err # Nil
    THEN [report |-> InitReport, files |-> c.files, err |-> c.err, pc |-> "done"]
    ELSE [report |-> [InitReport EXCEPT !.TotalFiles = Len(c.files)],
          files |-> c.files, err |-> Nil, pc |-> "loop"]

\* mutant of LoopDone: the loop gives up after the first failed file
LoopDoneOnFailure(i, fs, rep) == i > Len(fs) \/ rep.Failed > 0

\* mutant of LoopDone: the loop stops before the last file
LoopDoneOneEarly(i, fs, rep) == i >= Len(fs)

\* for _, filePath := range files (main_stub.go:57): the loop is over
LoopDone(i, fs, rep) == i > Len(fs)

\* the process has not exited
NotExited == -1

\* no command-line driver is running: the batch runner is called directly
NoDriver ==
    /\ args = <<>>
    /\ mpc = "none"
    /\ mdefers = <<>>
    /\ mainPanic = NoPanic
    /\ recovers = 0
    /\ stdout = <<>>
    /\ stderr = <<>>
    /\ exitCode = NotExited

\* no handle is being released outside the file processor
NoRelease ==
    /\ handle = NoHandle
    /\ closeCalls = 0
    /\ closeOut = [panic |-> NoPanic]

Init ==
    /\ NoDriver
    /\ NoRelease
    /\ dirPath \in DirPaths
    /\ fsEntries \in Listings
    /\ fsErr \in ReadDirErrors
    /\ pc = "start"
    /\ files = <<>>
    /\ idx = 0
    /\ report = InitReport
    /\ retErr = Nil
    /\ ppc = "idle"
    /\ result = ZeroResult
    /\ module = NoHandle
    /\ defers = <<>>
    /\ panicking = NoPanic
    /\ log = <<>>

\* runFuzzerWithRuntime is called: main_stub.go:37-54
RunFuzzerStart ==
    /\ pc = "start"
    /\ LET s == RunStart(dirPath, fsEntries, fsErr) IN
        /\ report' = s.report
        /\ files' = s.files
        /\ retErr' = s.err
        /\ pc' = s.pc
        /\ idx' = 1
    /\ UNCHANGED <<mainVars, releaseVars>>
    /\ UNCHANGED <<dirPath, fsEntries, fsErr, ppc, result, module, defers,
                   panicking, log>>

\* the loop calls processWasmFileWithRuntime(filePath, runtime) for the next
\* file (main_stub.go:57-58), which runs up to its first runtime call
\* (part_005:89-100)
ProcessCall ==
    /\ pc = "loop"
    /\ ~LoopDone(idx, files, report)
    /\ pc' = "process"
    /\ ppc' = "load"
    /\ result' = InitResult(files[idx])
    /\ module' = NoHandle
    /\ defers' = DefersAtEntry
    /\ panicking' = NoPanic
    /\ UNCHANGED <<mainVars, releaseVars>>
    /\ UNCHANGED <<dirPath, fsEntries, fsErr, files, idx, report, retErr, log>>

\* mutant of AfterLoadError: the error branch falls through to Execute
AfterLoadErrorFallThrough == "execute"

\* `return result` at the end of the error branch after LoadModule
\* (part_005:115): the function goes on to its deferred calls
AfterLoadError == "defers"

\* runtime.LoadModule(filePath) and what follows it up to the next runtime
\* call (part_005:103-117)
LoadModule ==
    /\ ppc = "load"
    /\ \E o \in LoadOutcomes :
        /\ log' = Append(log, Event("LoadModule", idx,
                                    IF o.handle THEN idx ELSE NoHandle,
                                    result.FilePath, o))
        /\ IF o.panic.active
           THEN /\ panicking' = o.panic
                /\ ppc' = "defers"
                /\ UNCHANGED <<result, module, defers>>
           ELSE IF o.err # Nil
           THEN LET c == ClassifyLoad(result, o.err) IN
                /\ result' = c.res
                /\ panicking' = c.panic
                /\ ppc' = IF c.panic.active THEN "defers" ELSE AfterLoadError
                /\ module' = IF o.handle THEN idx ELSE NoHandle
                /\ UNCHANGED defers
           ELSE IF ~o.handle
           THEN \* defer module.Close() on the nil interface panics
                /\ panicking' = Panic(NilDeref)
                /\ ppc' = "defers"
                /\ UNCHANGED <<result, module, defers>>
           ELSE /\ module' = idx
                /\ defers' = DeferClose(defers)
                /\ ppc' = "execute"
                /\ UNCHANGED <<result, panicking>>
    /\ UNCHANGED <<mainVars, releaseVars>>
    /\ UNCHANGED <<dirPath, fsEntries, fsErr, pc, files, idx, report, retErr>>

\* module.Execute("process", int32(1)) and what follows it up to the return
\* statement (part_005:120-137)
Execute ==
    /\ ppc = "execute"
    /\ \E o \in ExecuteOutcomes :
        /\ log' = Append(log, Event("Execute", idx, module, ExecuteArgs, o))
        /\ IF o.panic.active
           THEN /\ panicking' = o.panic
                /\ UNCHANGED result
           ELSE IF o.err # Nil
           THEN LET c == ClassifyExecute(result, o.err) IN
                /\ result' = c.res
                /\ panicking' = c.panic
           ELSE /\ result' = Succeed(result, o.returns)
                /\ UNCHANGED panicking
    /\ ppc' = "defers"
    /\ UNCHANGED <<mainVars, releaseVars>>
    /\ UNCHANGED <<dirPath, fsEntries, fsErr, pc, files, idx, report, retErr,
                   module, defers>>

\* the deferred module.Close() runs (part_005:117); a panic in it replaces
\* the panic in flight
DeferredClose ==
    /\ ppc = "defers"
    /\ defers # <<>>
    /\ Head(defers) = "close"
    /\ \E o \in CloseOutcomes :
        /\ log' = Append(log, Event("Close", idx, module, <<>>, o))
        /\ panicking' = IF o.panic.active THEN o.panic ELSE panicking
    /\ defers' = Tail(defers)
    /\ UNCHANGED <<mainVars, releaseVars>>
    /\ UNCHANGED <<dirPath, fsEntries, fsErr, pc, files, idx, report, retErr,
                   ppc, result, module>>

\* the deferred recovery closure runs (part_005:94-100)
DeferredRecover ==
    /\ ppc = "defers"
    /\ defers # <<>>
    /\ Head(defers) = "recover"
    /\ IF panicking.active
       THEN /\ result' = Recovered(result, panicking.value)
            /\ panicking' = NoPanic
       ELSE UNCHANGED <<result, panicking>>
    /\ defers' = Tail(defers)
    /\ UNCHANGED <<mainVars, releaseVars>>
    /\ UNCHANGED <<dirPath, fsEntries, fsErr, pc, files, idx, report, retErr,
                   ppc, module, log>>

\* processWasmFileWithRuntime returns to the loop, which aggregates the
\* result (main_stub.go:58-66); a panic still in flight unwinds through
\* runFuzzerWithRuntime, which has no recovery
ProcessReturn ==
    /\ ppc = "defers"
    /\ defers = <<>>
    /\ ppc' = "idle"
    /\ IF panicking.active
       THEN /\ pc' = "crashed"
            /\ UNCHANGED <<report, idx>>
       ELSE /\ pc' = "loop"
            /\ report' = Aggregate(report, result)
            /\ idx' = idx + 1
    /\ UNCHANGED <<mainVars, releaseVars>>
    /\ UNCHANGED <<dirPath, fsEntries, fsErr, files, retErr, result, module,
                   defers, panicking, log>>

\* the loop is over: return report, nil (main_stub.go:69)
RunFuzzerReturn ==
    /\ pc = "loop"
    /\ LoopDone(idx, files, report)
    /\ pc' = "done"
    /\ UNCHANGED <<mainVars, releaseVars>>
    /\ UNCHANGED <<dirPath, fsEntries, fsErr, files, idx, report, retErr,
                   ppc, result, module, defers, panicking, log>>

Next ==
    \/ RunFuzzerStart
    \/ ProcessCall
    \/ LoadModule
    \/ Execute
    \/ DeferredClose
    \/ DeferredRecover
    \/ ProcessReturn
    \/ RunFuzzerReturn

Spec == Init /\ [][Next]_vars

\* the program keeps running: the batch runner and the file processor take
\* their next step, and every runtime call made returns or panics
SpecFair == Init /\ [][Next]_vars /\ WF_vars(Next)

(***************************************************************************)
(* Close on the two module types (part_005:40-44, 81-84; part_004:46-60)   *)
(***************************************************************************)
\* what a MockWasmModule's ExecuteFunc field holds: nil, or a function,
\* given as the outcome it produces
ExecuteFuncs == { <<>> } \cup { <<o>> : o \in ExecuteOutcomes }

\* the paths LoadModule may be given
ModulePaths ==
    { Join(d, EntryUniverse[i].name) : d \in DirPaths, i \in 1..Len(EntryUniverse) }

\* &WasmEdgeModule{filePath: filePath} (part_005:66)
NewWasmEdgeModule(filePath) == [type |-> "WasmEdgeModule", filePath |-> filePath]

\* &MockWasmModule{ExecuteFunc: f} (part_004:46-49)
NewMockWasmModule(f) == [type |-> "MockWasmModule", ExecuteFunc |-> f, CloseCalled |-> FALSE]

\* the handles that exist when Close is first called
Handles ==
    { NewWasmEdgeModule(p) : p \in ModulePaths }
    \cup { NewMockWasmModule(f) : f \in ExecuteFuncs }

\* (*WasmEdgeModule).Close: an empty body (part_005:82-84)
WasmEdgeModuleClose(m) == [module |-> m, panic |-> NoPanic]

\* mutant of MockWasmModuleClose: Close flips the flag
MockWasmModuleCloseToggle(m) ==
    [module |-> [m EXCEPT !.CloseCalled = ~m.CloseCalled], panic |-> NoPanic]

\* (*MockWasmModule).Close (part_004:58-60)
MockWasmModuleClose(m) ==
    [module |-> [m EXCEPT !.CloseCalled = TRUE], panic |-> NoPanic]

\* m.Close() through the WasmModule interface: the handle afterwards, and
\* the panic raised, if any
Close(m) ==
    IF m.type = "MockWasmModule" THEN MockWasmModuleClose(m)
    ELSE WasmEdgeModuleClose(m)

\* nothing of the batch runner or the file processor is running
NoBatch ==
    /\ dirPath = <<>>
    /\ fsEntries = <<>>
    /\ fsErr = Nil
    /\ pc = "notcalled"
    /\ files = <<>>
    /\ idx = 0
    /\ report = InitReport
    /\ retErr = Nil
    /\ ppc = "idle"
    /\ result = ZeroResult
    /\ module = NoHandle
    /\ defers = <<>>
    /\ panicking = NoPanic
    /\ log = <<>>

\* a handle has been created and Close has not been called on it
InitRelease ==
    /\ NoBatch
    /\ NoDriver
    /\ handle \in Handles
    /\ closeCalls = 0
    /\ closeOut = [panic |-> NoPanic]

\* handle.Close() is called
CloseCall ==
    /\ closeCalls < MaxCloseCalls
    /\ LET c == Close(handle) IN
        /\ handle' = c.module
        /\ closeOut' = [panic |-> c.panic]
    /\ closeCalls' = closeCalls + 1
    /\ UNCHANGED <<batchVars, mainVars>>

NextRelease == CloseCall

SpecRelease == InitRelease /\ [][NextRelease]_vars

(***************************************************************************)
(* The command-line driver: main and outputJSON (main.go:163-233).         *)
(* runFuzzer (main.go:127-161) is runFuzzerWithRuntime line for line but   *)
(* for the file processor it calls, the four-stage processWasmFile; the    *)
(* actions RunFuzzerStart, ProcessReturn and RunFuzzerReturn of the batch  *)
(* runner above stand for it, and the steps of processWasmFile are those   *)
(* of the four-stage file processor below, where NextMain is defined.      *)
(* The default build has another main (main_stub.go:79-84), which prints   *)
(* two lines and returns.                                                  *)
(***************************************************************************)
ProgramName == <<"wasm-fuzzer">>

\* the directory arguments: "./corpus", "corpus/../x", "." and
\* "/tmp/corpus"
DirArgs ==
    DirPaths \cup { << <<"corpus">>, <<Dot, Dot>>, <<"x">> >>,
                    << <<Dot>> >>,
                    << <<>>, <<"tmp">>, <<"corpus">> >> }

\* the listings of the directory given on the command line
MainListings == { l \in Listings : Len(l) <= MaxMainEntries }

\* os.Args: the program name alone, or followed by the directory
ArgLists == { <<ProgramName>> } \cup { <<ProgramName, d>> : d \in DirArgs }

\* what standard output and standard error receive: an encoded JSON value,
\* or a line of text
Json(v, whole) == [kind |-> "json", value |-> v, complete |-> whole]
Text(t) == [kind |-> "text", value |-> t, complete |-> TRUE]

\* the error objects of main
UsageError == [error |-> <<"usage: wasm-fuzzer <directory>">>]
AccessError(err) == [error |-> <<"directory access failed">>, details |-> ErrorText(err)]
NotDirError(path) == [error |-> <<"path is not a directory">>, path |-> path]
RunError(err) == [error |-> <<"fuzzer execution failed">>, details |-> ErrorText(err)]
FatalError(r) == [error |-> <<"fatal panic in main">>, details |-> r]

\* the line written when outputJSON fails (main.go:230)
EncodeFailure(err) == <<"failed to encode JSON output: ">> \o ErrorText(err)

\* json encoding of an ExecutionResult: the fields tagged omitempty are
\* left out when empty (types.go:15-22)
MarshalResult(r) ==
    [k \in {"file_path", "file_name", "success", "failure_stage"}
           \cup (IF r.ErrorMessage # <<>> THEN {"error_message"} ELSE {})
           \cup (IF r.ReturnValues # <<>> THEN {"return_values"} ELSE {}) |->
        CASE k = "file_path" -> r.FilePath
          [] k = "file_name" -> r.FileName
          [] k = "success" -> r.Success
          [] k = "failure_stage" -> r.FailureStage
          [] k = "error_message" -> r.ErrorMessage
          [] OTHER -> r.ReturnValues]

\* json encoding of a FuzzingReport (types.go:25-31)
MarshalReport(rep) ==
    [total_files |-> rep.TotalFiles,
     passed |-> rep.Passed,
     failed |-> rep.Failed,
     results |-> [i \in 1..Len(rep.Results) |-> MarshalResult(rep.Results[i])],
     failure_counts |-> rep.FailureCounts]

\* os.Stat(dirPath): fails, or describes a file, or describes a directory
StatOutcomes ==
    { [err |-> NewError(<<"stat corpus: no such file or directory">>),
       isDir |-> FALSE, panic |-> NoPanic],
      [err |-> Nil, isDir |-> FALSE, panic |-> NoPanic],
      [err |-> Nil, isDir |-> TRUE, panic |-> NoPanic] }

\* wasmedge.SetLogErrorLevel(): returns, or panics
SetLogOutcomes == { [panic |-> NoPanic] } \cup { [panic |-> Panic(v)] : v \in PanicValues }

\* the signal a write to a broken pipe on standard output raises; main.go
\* does not ask to be notified of it, so it ends the process
SIGPIPE == 13
NoSignal == 0

\* the write of the encoded report to standard output: succeeds, or fails
\* having written part of it and returns the error, or finds the pipe
\* broken, which kills the process inside the write
WriteOutcomes ==
    { [err |-> Nil, signal |-> NoSignal],
      [err |-> NewError(<<"write /dev/stdout: no space left on device">>),
       signal |-> NoSignal],
      [err |-> NewError(<<"write /dev/stdout: broken pipe">>), signal |-> SIGPIPE] }

\* outputJSON(report), given how the write ends (main.go:164-168): what
\* standard output receives, and the error returned
outputJSON(rep, werr) ==
    [written |-> <<Json(MarshalReport(rep), werr = Nil)>>, err |-> werr]

\* mutant of AfterRunFuzzer: the error of runFuzzer is not looked at
AfterRunFuzzerIgnoreErr(rep, err) ==
    [mpc |-> "output", stderr |-> <<>>, exitCode |-> NotExited]

\* main after runFuzzer returned (main.go:219-226): where it goes on, what
\* it writes to standard error and the exit status, if it exits
AfterRunFuzzer(rep, err) ==
    IF err # Nil
    THEN [mpc |-> "exited", stderr |-> <<Json(RunError(err), TRUE)>>, exitCode |-> 1]
    ELSE [mpc |-> "output", stderr |-> <<>>, exitCode |-> NotExited]

\* mutant of MainDefers: main defers no recovery
MainDefersNone == <<>>

\* the deferred calls pending once main.go:172-181 has run
MainDefers == <<"recover">>

\* the process starts: main has deferred its recovery closure
InitMain ==
    /\ NoRelease
    /\ dirPath = <<>>
    /\ fsEntries \in MainListings
    /\ fsErr \in ReadDirErrors
    /\ pc = "notcalled"
    /\ files = <<>>
    /\ idx = 0
    /\ report = InitReport
    /\ retErr = Nil
    /\ ppc = "idle"
    /\ result = ZeroResult
    /\ module = NoHandle
    /\ defers = <<>>
    /\ panicking = NoPanic
    /\ log = <<>>
    /\ args \in ArgLists
    /\ mpc = "args"
    /\ mdefers = MainDefers
    /\ mainPanic = NoPanic
    /\ recovers = 0
    /\ stdout = <<>>
    /\ stderr = <<>>
    /\ exitCode = NotExited

\* the check of os.Args and dirPath := os.Args[1] (main.go:184-192)
MainArgs ==
    /\ mpc = "args"
    /\ IF Len(args) < 2
       THEN /\ stderr' = Append(stderr, Json(UsageError, TRUE))
            /\ exitCode' = 1
            /\ mpc' = "exited"
            /\ UNCHANGED dirPath
       ELSE /\ dirPath' = args[2]
            /\ mpc' = "stat"
            /\ UNCHANGED <<stderr, exitCode>>
    /\ UNCHANGED <<fsEntries, fsErr, pc, files, idx, report, retErr, ppc, result,
                   module, defers, panicking, log>>
    /\ UNCHANGED <<args, mdefers, mainPanic, recovers, stdout>>
    /\ UNCHANGED releaseVars

\* os.Stat(dirPath) and the two checks of its result (main.go:195-212)
MainStat ==
    /\ mpc = "stat"
    /\ \E o \in StatOutcomes :
        /\ log' = Append(log, Event("Stat", 0, NoHandle, dirPath, o))
        /\ IF o.err # Nil
           THEN /\ stderr' = Append(stderr, Json(AccessError(o.err), TRUE))
                /\ exitCode' = 1
                /\ mpc' = "exited"
           ELSE IF ~o.isDir
           THEN /\ stderr' = Append(stderr, Json(NotDirError(dirPath), TRUE))
                /\ exitCode' = 1
                /\ mpc' = "exited"
           ELSE /\ mpc' = "init"
                /\ UNCHANGED <<stderr, exitCode>>
    /\ UNCHANGED <<dirPath, fsEntries, fsErr, pc, files, idx, report, retErr, ppc,
                   result, module, defers, panicking>>
    /\ UNCHANGED <<args, mdefers, mainPanic, recovers, stdout>>
    /\ UNCHANGED releaseVars

\* wasmedge.SetLogErrorLevel() and the call of runFuzzer (main.go:215-218)
MainSetLog ==
    /\ mpc = "init"
    /\ \E o \in SetLogOutcomes :
        /\ log' = Append(log, Event("SetLogErrorLevel", 0, NoHandle, <<>>, o))
        /\ IF o.panic.active
           THEN /\ mainPanic' = o.panic
                /\ mpc' = "unwind"
                /\ UNCHANGED pc
           ELSE /\ mpc' = "run"
                /\ pc' = "start"
                /\ UNCHANGED mainPanic
    /\ UNCHANGED <<dirPath, fsEntries, fsErr, files, idx, report, retErr, ppc,
                   result, module, defers, panicking>>
    /\ UNCHANGED <<args, mdefers, recovers, stdout, stderr, exitCode>>
    /\ UNCHANGED releaseVars

\* runFuzzer has returned, or a panic has unwound it (main.go:218-226)
MainAfterRun ==
    /\ mpc = "run"
    /\ pc \in {"done", "crashed"}
    /\ IF pc = "crashed"
       THEN /\ mainPanic' = panicking
            /\ mpc' = "unwind"
            /\ UNCHANGED <<stderr, exitCode>>
       ELSE LET a == AfterRunFuzzer(report, retErr) IN
            /\ mpc' = a.mpc
            /\ stderr' = stderr \o a.stderr
            /\ exitCode' = a.exitCode
            /\ UNCHANGED mainPanic
    /\ UNCHANGED batchVars
    /\ UNCHANGED <<args, mdefers, recovers, stdout>>
    /\ UNCHANGED releaseVars

\* outputJSON(report) and what follows it (main.go:229-233); a process
\* killed inside the write runs nothing more: no deferred call, no line on
\* standard error, no exit status
MainOutput ==
    /\ mpc = "output"
    /\ \E w \in WriteOutcomes :
        IF w.signal # NoSignal
        THEN /\ mpc' = "killed"
             /\ UNCHANGED <<stdout, stderr, exitCode>>
        ELSE LET o == outputJSON(report, w.err) IN
             /\ stdout' = stdout \o o.written
             /\ IF o.err # Nil
                THEN /\ stderr' = Append(stderr, Text(EncodeFailure(o.err)))
                     /\ exitCode' = 1
                     /\ mpc' = "exited"
                ELSE /\ mpc' = "unwind"
                     /\ UNCHANGED <<stderr, exitCode>>
    /\ UNCHANGED batchVars
    /\ UNCHANGED <<args, mdefers, mainPanic, recovers>>
    /\ UNCHANGED releaseVars

\* main's deferred closure runs (main.go:172-181)
MainRecover ==
    /\ mpc = "unwind"
    /\ mdefers # <<>>
    /\ Head(mdefers) = "recover"
    /\ mdefers' = Tail(mdefers)
    /\ IF mainPanic.active
       THEN /\ recovers' = recovers + 1
            /\ stderr' = Append(stderr, Json(FatalError(mainPanic.value), TRUE))
            /\ exitCode' = 1
            /\ mpc' = "exited"
            /\ mainPanic' = NoPanic
       ELSE UNCHANGED <<recovers, stderr, exitCode, mpc, mainPanic>>
    /\ UNCHANGED batchVars
    /\ UNCHANGED <<args, stdout>>
    /\ UNCHANGED releaseVars

\* main is left with no deferred call pending: the process exits with
\* status 0, or dies of the panic still in flight (status 2)
MainReturn ==
    /\ mpc = "unwind"
    /\ mdefers = <<>>
    /\ IF mainPanic.active
       THEN /\ mpc' = "died"
            /\ stderr' = Append(stderr, Text(<<"panic: ">> \o mainPanic.value))
            /\ exitCode' = 2
       ELSE /\ mpc' = "exited"
            /\ exitCode' = 0
            /\ UNCHANGED stderr
    /\ UNCHANGED batchVars
    /\ UNCHANGED <<args, mdefers, mainPanic, recovers, stdout>>
    /\ UNCHANGED releaseVars

\* the two lines main of the default build prints (main_stub.go:82-83)
StubLines ==
    << Text(<<"Build with -tags=integration to run the full WasmEdge fuzzer">>),
       Text(<<"Run 'go test' to run the fault injection tests">>) >>

\* the process of the default build starts: its main defers nothing and
\* reads neither os.Args nor the directory
InitStubMain ==
    /\ NoRelease
    /\ NoBatch
    /\ args \in ArgLists
    /\ mpc = "stub"
    /\ mdefers = <<>>
    /\ mainPanic = NoPanic
    /\ recovers = 0
    /\ stdout = <<>>
    /\ stderr = <<>>
    /\ exitCode = NotExited

\* main of the default build (main_stub.go:79-84): it prints its two lines
\* and returns, so the process ends with status 0
StubMain ==
    /\ mpc = "stub"
    /\ stdout' = stdout \o StubLines
    /\ exitCode' = 0
    /\ mpc' = "returned"
    /\ UNCHANGED batchVars
    /\ UNCHANGED <<args, mdefers, mainPanic, recovers, stderr>>
    /\ UNCHANGED releaseVars

(***************************************************************************)
(* The four-stage file processor: processWasmFile (main.go:17-102), over   *)
(* the calls of the WasmEdge SDK.  One call of it is specified by          *)
(* SpecStages; it uses the variables of the file processor above (ppc is   *)
(* the SDK call to make next, defers holds the resources whose Release is  *)
(* deferred, above the recovery closure).                                  *)
(***************************************************************************)
\* the resources processWasmFile acquires, in the order it acquires them
Resources == <<"conf", "loader", "ast", "validator", "store", "executor", "module">>

\* the SDK calls processWasmFile makes, in the order it makes them
EngineCalls ==
    <<"NewConfigure", "NewLoader", "LoadFile", "NewValidator", "Validate",
      "NewStore", "NewExecutor", "Instantiate", "FindFunction", "Invoke">>

\* the calls that are the four stages, in order: load, validate,
\* instantiate, and the two calls of execute
StageCalls == <<"LoadFile", "Validate", "Instantiate", "FindFunction", "Invoke">>

\* the resource a call yields when it succeeds, "" when it yields none to
\* release
ResourceOf(op) ==
    CASE op = "NewConfigure" -> "conf"
      [] op = "NewLoader" -> "loader"
      [] op = "LoadFile" -> "ast"
      [] op = "NewValidator" -> "validator"
      [] op = "NewStore" -> "store"
      [] op = "NewExecutor" -> "executor"
      [] op = "Instantiate" -> "module"
      [] OTHER -> ""

\* mutant of StageOfCall: every failure is reported as a failure to execute
StageOfCallExecute(op) == StageExecute

\* the FailureStage set when the call returns an error (main.go:42, 55, 69,
\* 79, 88)
StageOfCall(op) ==
    CASE op = "LoadFile" -> StageLoad
      [] op = "Validate" -> StageValidate
      [] op = "Instantiate" -> StageInstantiate
      [] OTHER -> StageExecute

\* the prefix of the ErrorMessage set when the call returns an error
\* (main.go:43, 56, 70, 89)
PrefixOfCall(op) ==
    CASE op = "LoadFile" -> <<"load failed: ">>
      [] op = "Validate" -> <<"validation failed: ">>
      [] op = "Instantiate" -> <<"instantiation failed: ">>
      [] OTHER -> <<"execution failed: ">>

\* the error branch after a stage call (main.go:40-45, 53-58, 67-72, 87-92)
StageFailed(res, op, err) ==
    [res EXCEPT !.Success = FALSE,
                !.FailureStage = StageOfCall(op),
                !.ErrorMessage = PrefixOfCall(op) \o ErrorText(err)]

ExportNotFound == <<"function 'process' not found in module exports">>

\* mutant of ExportMissing: a missing export is left to Invoke
ExportMissingIgnored(res) == [res |-> res, ppc |-> "Invoke"]

\* funcInstance == nil (main.go:77-82): the result, and where the function
\* goes on
ExportMissing(res) ==
    [res |-> [res EXCEPT !.Success = FALSE,
                         !.FailureStage = StageExecute,
                         !.ErrorMessage = ExportNotFound],
     ppc |-> "defers"]

\* the success path (main.go:95-101): the returned values are copied one by
\* one
StageSucceeded(res, returns) ==
    [res EXCEPT !.Success = TRUE,
                !.ReturnValues = [i \in 1..Len(returns) |-> returns[i]]]

\* mutant of Defer: the deferred calls would run in the order they were
\* deferred
DeferFifo(ds, r) ==
    IF ds = <<>> THEN <<r>>
    ELSE SubSeq(ds, 1, Len(ds) - 1) \o <<r, ds[Len(ds)]>>

\* defer r.Release(): the call runs before those deferred earlier
Defer(ds, r) == <<r>> \o ds

\* the errors the SDK returns: plain errors, none of them a RuntimeError
EngineErrors == { NewError(<<"wasm error">>) }

\* a constructor of the SDK returns its object, or panics
AcquireOutcomes ==
    { [found |-> TRUE, returns |-> <<>>, err |-> Nil, panic |-> NoPanic] }
    \cup { [found |-> FALSE, returns |-> <<>>, err |-> Nil, panic |-> Panic(v)] :
               v \in PanicValues }

\* LoadFile, Validate, Instantiate: return, return an error, or panic
StageOutcomes ==
    AcquireOutcomes
    \cup { [found |-> FALSE, returns |-> <<>>, err |-> e, panic |-> NoPanic] :
               e \in EngineErrors }

\* module.FindFunction("process"): the function, nil, or a panic
FindOutcomes ==
    AcquireOutcomes
    \cup { [found |-> FALSE, returns |-> <<>>, err |-> Nil, panic |-> NoPanic] }

\* executor.Invoke(funcInstance, int32(1)): values, an error, or a panic
InvokeOutcomes ==
    { [found |-> TRUE, returns |-> r, err |-> Nil, panic |-> NoPanic] :
          r \in ReturnValueSets }
    \cup (StageOutcomes \ { [found |-> TRUE, returns |-> <<>>, err |-> Nil,
                            panic |-> NoPanic] })

\* Release(): returns, or panics
ReleaseOutcomes ==
    { [found |-> TRUE, returns |-> <<>>, err |-> Nil, panic |-> p.panic] :
          p \in CloseOutcomes }

\* runFuzzer has called processWasmFile for a file, which has set the three
\* fields of its result and deferred its recovery closure (main.go:17-29)
InitStages ==
    /\ NoDriver
    /\ NoRelease
    /\ dirPath \in DirPaths
    /\ fsEntries = <<>>
    /\ fsErr = Nil
    /\ pc = "process"
    /\ files \in { <<p>> : p \in ModulePaths }
    /\ idx = 1
    /\ report = [InitReport EXCEPT !.TotalFiles = 1]
    /\ retErr = Nil
    /\ ppc = "NewConfigure"
    /\ result = InitResult(files[1])
    /\ module = NoHandle
    /\ defers = DefersAtEntry
    /\ panicking = NoPanic
    /\ log = <<>>

\* a constructor of the SDK is called and the Release of its object is
\* deferred
Acquire(op, next) ==
    /\ pc = "process"
    /\ ppc = op
    /\ \E o \in AcquireOutcomes :
        /\ log' = Append(log, Event(op, idx, NoHandle, ResourceOf(op), o))
        /\ IF o.panic.active
           THEN /\ panicking' = o.panic
                /\ ppc' = "defers"
                /\ UNCHANGED defers
           ELSE /\ defers' = Defer(defers, ResourceOf(op))
                /\ ppc' = next
                /\ UNCHANGED panicking
    /\ UNCHANGED <<dirPath, fsEntries, fsErr, pc, files, idx, report, retErr,
                   result, module>>
    /\ UNCHANGED <<mainVars, releaseVars>>

\* a stage call is made; on success the Release of what it yields, if
\* anything, is deferred
Stage(op, next) ==
    /\ pc = "process"
    /\ ppc = op
    /\ \E o \in StageOutcomes :
        /\ log' = Append(log, Event(op, idx, NoHandle, ResourceOf(op), o))
        /\ IF o.panic.active
           THEN /\ panicking' = o.panic
                /\ ppc' = "defers"
                /\ UNCHANGED <<result, defers>>
           ELSE IF o.err # Nil
           THEN /\ result' = StageFailed(result, op, o.err)
                /\ ppc' = "defers"
                /\ UNCHANGED <<panicking, defers>>
           ELSE /\ defers' = IF ResourceOf(op) = "" THEN defers
                                                     ELSE Defer(defers, ResourceOf(op))
                /\ ppc' = next
                /\ UNCHANGED <<result, panicking>>
    /\ UNCHANGED <<dirPath, fsEntries, fsErr, pc, files, idx, report, retErr, module>>
    /\ UNCHANGED <<mainVars, releaseVars>>

\* main.go:32-33
NewConfigure == Acquire("NewConfigure", "NewLoader")
\* main.go:36-37
NewLoader == Acquire("NewLoader", "LoadFile")
\* main.go:39-46
LoadFile == Stage("LoadFile", "NewValidator")
\* main.go:49-50
NewValidator == Acquire("NewValidator", "Validate")
\* main.go:52-58
Validate == Stage("Validate", "NewStore")
\* main.go:61-62
NewStore == Acquire("NewStore", "NewExecutor")
\* main.go:64-65
NewExecutor == Acquire("NewExecutor", "Instantiate")
\* main.go:67-74
Instantiate == Stage("Instantiate", "FindFunction")

\* module.FindFunction("process") and the check of its result
\* (main.go:76-83)
FindFunction ==
    /\ pc = "process"
    /\ ppc = "FindFunction"
    /\ \E o \in FindOutcomes :
        /\ log' = Append(log, Event("FindFunction", idx, NoHandle, <<"process">>, o))
        /\ IF o.panic.active
           THEN /\ panicking' = o.panic
                /\ ppc' = "defers"
                /\ UNCHANGED result
           ELSE IF ~o.found
           THEN /\ result' = ExportMissing(result).res
                /\ ppc' = ExportMissing(result).ppc
                /\ UNCHANGED panicking
           ELSE /\ ppc' = "Invoke"
                /\ UNCHANGED <<result, panicking>>
    /\ UNCHANGED <<dirPath, fsEntries, fsErr, pc, files, idx, report, retErr,
                   module, defers>>
    /\ UNCHANGED <<mainVars, releaseVars>>

\* executor.Invoke(funcInstance, int32(1)) and what follows it up to the
\* return statement (main.go:85-101)
Invoke ==
    /\ pc = "process"
    /\ ppc = "Invoke"
    /\ \E o \in InvokeOutcomes :
        /\ log' = Append(log, Event("Invoke", idx, NoHandle, ExecuteArgs, o))
        /\ IF o.panic.active
           THEN /\ panicking' = o.panic
                /\ UNCHANGED result
           ELSE IF o.err # Nil
           THEN /\ result' = StageFailed(result, "Invoke", o.err)
                /\ UNCHANGED panicking
           ELSE /\ result' = StageSucceeded(result, o.returns)
                /\ UNCHANGED panicking
    /\ ppc' = "defers"
    /\ UNCHANGED <<dirPath, fsEntries, fsErr, pc, files, idx, report, retErr,
                   module, defers>>
    /\ UNCHANGED <<mainVars, releaseVars>>

\* the Release calls that have panicked so far
ReleasePanics(l) ==
    Cardinality({ i \in 1..Len(l) : l[i].op = "Release" /\ l[i].out.panic.active })

\* runFuzzer calls processWasmFile for the next file, which sets the three
\* fields of its result and defers its recovery closure (main.go:148-149,
\* 17-29)
ProcessFileCall ==
    /\ pc = "loop"
    /\ ~LoopDone(idx, files, report)
    /\ pc' = "process"
    /\ ppc' = "NewConfigure"
    /\ result' = InitResult(files[idx])
    /\ module' = NoHandle
    /\ defers' = DefersAtEntry
    /\ panicking' = NoPanic
    /\ UNCHANGED <<mainVars, releaseVars>>
    /\ UNCHANGED <<dirPath, fsEntries, fsErr, files, idx, report, retErr, log>>

\* a deferred Release runs; a panic in it replaces the panic in flight, and
\* the deferred calls after it still run
DeferredRelease ==
    /\ pc = "process"
    /\ ppc = "defers"
    /\ defers # <<>>
    /\ \E k \in 1..Len(Resources) : Resources[k] = Head(defers)
    /\ \E o \in ReleaseOutcomes :
        /\ o.panic.active => ReleasePanics(log) < MaxReleasePanics
        /\ log' = Append(log, Event("Release", idx, NoHandle, Head(defers), o))
        /\ panicking' = IF o.panic.active THEN o.panic ELSE panicking
    /\ defers' = Tail(defers)
    /\ UNCHANGED <<dirPath, fsEntries, fsErr, pc, files, idx, report, retErr,
                   ppc, result, module>>
    /\ UNCHANGED <<mainVars, releaseVars>>

NextStages ==
    \/ NewConfigure
    \/ NewLoader
    \/ LoadFile
    \/ NewValidator
    \/ Validate
    \/ NewStore
    \/ NewExecutor
    \/ Instantiate
    \/ FindFunction
    \/ Invoke
    \/ DeferredRelease
    \/ DeferredRecover

SpecStages == InitStages /\ [][NextStages]_vars

\* the command-line driver of either build: main of main.go, which runs
\* runFuzzer and with it processWasmFile for every file, or main of
\* main_stub.go
NextMain ==
    \/ MainArgs
    \/ MainStat
    \/ MainSetLog
    \/ RunFuzzerStart
    \/ ProcessFileCall
    \/ NextStages
    \/ ProcessReturn
    \/ RunFuzzerReturn
    \/ MainAfterRun
    \/ MainOutput
    \/ MainRecover
    \/ MainReturn
    \/ StubMain

SpecMain == (InitMain \/ InitStubMain) /\ [][NextMain]_vars

(***************************************************************************)
(* Vocabulary of the properties                                            *)
(***************************************************************************)
\* processWasmFileWithRuntime has run its deferred calls and hands back
AtReturn == pc = "process" /\ ppc = "defers" /\ defers = <<>>

\* call c of the file processor has reached its return
Returned(c) == c \in 1..Len(report.Results) \/ (AtReturn /\ c = idx)

\* the calls that have reached their return
ReturnedCalls == (1..Len(report.Results)) \cup (IF AtReturn THEN {idx} ELSE {})

\* the ExecutionResult call c returned
ResultOf(c) == IF c \in 1..Len(report.Results) THEN report.Results[c] ELSE result

\* the runtime calls of kind o made by call c
EventsOf(c, o) == { i \in 1..Len(log) : log[i].call = c /\ log[i].op = o }

IsPrefix(p, m) == Len(p) <= Len(m) /\ SubSeq(m, 1, Len(p)) = p

PanicPrefix == <<"panic recovered: ">>

\* the batch runner has returned
Done == pc = "done"

\* what file discovery returns for the directory at hand
Discovered == collectWasmFiles(dirPath, fsEntries, fsErr).files

RECURSIVE SumOver(_, _)
SumOver(f, S) ==
    IF S = {} THEN 0
    ELSE LET k == CHOOSE x \in S : TRUE IN f[k] + SumOver(f, S \ {k})

\* the error is, or wraps, a RuntimeError value (a nil *RuntimeError is none)
IsTagged(err) == ErrorsAs(err) # 0 /\ err[ErrorsAs(err)].type = "RuntimeError"
TagOf(err) == err[ErrorsAs(err)].Stage

\* errors.As matches a nil *RuntimeError, whose dereference panics
IsNilTagged(err) == ErrorsAs(err) # 0 /\ err[ErrorsAs(err)].type = "nilRuntimeError"

(***************************************************************************)
(* C1. Whatever LoadModule, Execute and Close do (return, return an error, *)
(* panic), no panic propagates out of processWasmFileWithRuntime: when its *)
(* deferred calls have run no panic is in flight, and the batch runner is  *)
(* never unwound by one.                                                   *)
(***************************************************************************)
C1_NoPanicEscapes ==
    /\ pc # "crashed"
    /\ AtReturn => ~panicking.active

\* a call returns after Execute panicked and the deferred Close panicked too
C1_Witness ==
    /\ AtReturn
    /\ \E i \in EventsOf(idx, "Execute") : log[i].out.panic.active
    /\ \E i \in EventsOf(idx, "Close") : log[i].out.panic.active

(***************************************************************************)
(* C2. Every returned ExecutionResult has Success = (FailureStage = none). *)
(* The code breaks this for a RuntimeError tagged StageNone.               *)
(***************************************************************************)
C2_SuccessIffStageNone ==
    AtReturn => (result.Success <=> (result.FailureStage = StageNone))

\* the Close calls call c made on handle h
ClosesOf(c, h) == { i \in EventsOf(c, "Close") : log[i].handle = h }

\* LoadModule returned handle h to call c, without error
Loaded(c, h) ==
    \E i \in EventsOf(c, "LoadModule") :
        log[i].handle = h /\ h # NoHandle /\ log[i].out.err = Nil

(***************************************************************************)
(* C3. When LoadModule returns a handle without error, Close is called on  *)
(* that handle exactly once before the call returns (never twice at any    *)
(* moment, and once when the call has returned), whether Execute           *)
(* succeeded, returned an error or panicked.                               *)
(***************************************************************************)
\* C3: exactly one Close per handle LoadModule returned, at the return
C3_CloseExactlyOnce ==
    pc = "process" =>
        \A h \in 1..idx :
            Loaded(idx, h) =>
                /\ Cardinality(ClosesOf(idx, h)) <= 1
                /\ AtReturn => Cardinality(ClosesOf(idx, h)) = 1

\* a batch in which one call returned after Execute panicked, one after
\* Execute returned an error and one after Execute succeeded
C3_Witness ==
    /\ Done
    /\ \E i \in 1..Len(log) : log[i].op = "Execute" /\ log[i].out.panic.active
    /\ \E i \in 1..Len(log) : log[i].op = "Execute" /\ log[i].out.err # Nil
    /\ \E i \in 1..Len(log) : /\ log[i].op = "Execute"
                              /\ ~log[i].out.panic.active
                              /\ log[i].out.err = Nil

\* a runtime call of kind o made by call c panicked
PanickedIn(c, o) == \E i \in EventsOf(c, o) : log[i].out.panic.active

(***************************************************************************)
(* C4. A panic raised inside LoadModule or inside Execute always yields a  *)
(* result with Success = false, FailureStage = execute and an ErrorMessage *)
(* that begins "panic recovered: ", whichever call panicked and whatever   *)
(* the panic value.                                                        *)
(***************************************************************************)
C4_PanicIsExecuteFailure ==
    (AtReturn /\ (PanickedIn(idx, "LoadModule") \/ PanickedIn(idx, "Execute"))) =>
        /\ ~result.Success
        /\ result.FailureStage = StageExecute
        /\ IsPrefix(PanicPrefix, result.ErrorMessage)

\* a batch with a result for a panic in LoadModule and one for a panic, of
\* another value, in Execute
C4_Witness ==
    /\ Done
    /\ \E c, d \in ReturnedCalls :
        /\ PanickedIn(c, "LoadModule")
        /\ PanickedIn(d, "Execute")
        /\ ResultOf(c).ErrorMessage # ResultOf(d).ErrorMessage

(***************************************************************************)
(* C5. The stage of a failed result follows one policy at both call sites. *)
(***************************************************************************)
\* the call that returned an error, if any: its nominal stage and the error
ErrorOf(c) ==
    IF \E i \in EventsOf(c, "LoadModule") : log[i].out.err # Nil
    THEN [site |-> StageLoad,
          err |-> log[CHOOSE i \in EventsOf(c, "LoadModule") : TRUE].out.err]
    ELSE IF \E i \in EventsOf(c, "Execute") : log[i].out.err # Nil
    THEN [site |-> StageExecute,
          err |-> log[CHOOSE i \in EventsOf(c, "Execute") : TRUE].out.err]
    ELSE [site |-> StageNone, err |-> Nil]

\* the policy: the tag of a tagged error, the call site's stage otherwise
PolicyStage(e) == IF IsTagged(e.err) THEN TagOf(e.err) ELSE e.site

\* a panic was raised during call c: by a runtime call, or by the
\* dereference of a nil *RuntimeError
PanicRaised(c) ==
    \/ PanickedIn(c, "LoadModule")
    \/ PanickedIn(c, "Execute")
    \/ PanickedIn(c, "Close")
    \/ IsNilTagged(ErrorOf(c).err)

\* C5 as claimed: whenever LoadModule or Execute returned an error, the
\* result's stage is the error's tag, or else the call site's stage.
C5_Original ==
    (AtReturn /\ ErrorOf(idx).err # Nil) =>
        result.FailureStage = PolicyStage(ErrorOf(idx))

\* C5 as amended: whenever LoadModule or Execute returned an error and no
\* panic was raised during the call, the result's stage is the error's tag,
\* or else the call site's stage; when a panic was raised (by the deferred
\* Close, or by the dereference of a nil *RuntimeError) the stage is execute.
C5_StagePolicy ==
    (AtReturn /\ ErrorOf(idx).err # Nil) =>
        result.FailureStage =
            IF PanicRaised(idx) THEN StageExecute ELSE PolicyStage(ErrorOf(idx))

\* a batch with: an untagged error from LoadModule, a wrapped tagged error
\* from Execute with Close returning normally, and a tagged error from
\* Execute followed by a panic in Close
C5_Witness ==
    /\ Done
    /\ \E a, b, c \in ReturnedCalls :
        /\ ErrorOf(a).site = StageLoad /\ ~IsTagged(ErrorOf(a).err)
        /\ ~PanicRaised(a)
        /\ ErrorOf(b).site = StageExecute /\ IsTagged(ErrorOf(b).err)
        /\ ErrorsAs(ErrorOf(b).err) > 1
        /\ ~PanicRaised(b)
        /\ ErrorOf(c).site = StageExecute /\ IsTagged(ErrorOf(c).err)
        /\ TagOf(ErrorOf(c).err) # StageExecute
        /\ PanickedIn(c, "Close")

(***************************************************************************)
(* C6. Every report returned without error satisfies                       *)
(* Passed + Failed = TotalFiles = len(Results), for any directory listing  *)
(* and any mix of per-file outcomes.                                       *)
(***************************************************************************)
C6_ReportTotals ==
    (Done /\ retErr = Nil) =>
        /\ report.Passed + report.Failed = report.TotalFiles
        /\ report.TotalFiles = Len(report.Results)

\* a returned report over a directory that also holds entries which are not
\* collected, with passed and failed files
C6_Witness ==
    /\ Done /\ retErr = Nil
    /\ report.Passed >= 1
    /\ report.Failed >= 1
    /\ Len(fsEntries) > report.TotalFiles

\* the results that failed at stage s
FailedAt(s) ==
    { i \in 1..Len(report.Results) :
        ~report.Results[i].Success /\ report.Results[i].FailureStage = s }

(***************************************************************************)
(* C7. Every report the batch runner returns satisfies: the FailureCounts  *)
(* values sum to Failed, and the keys load, validate, instantiate and      *)
(* execute are all present, with value zero when no file failed at that    *)
(* stage.                                                                  *)
(***************************************************************************)
C7_FailureCounts ==
    Done =>
        /\ SumOver(report.FailureCounts, DOMAIN report.FailureCounts) = report.Failed
        /\ FailureStages \subseteq DOMAIN report.FailureCounts
        /\ \A s \in FailureStages :
               FailedAt(s) = {} => report.FailureCounts[s] = 0

\* a returned report with two failures at different stages and a stage at
\* which no file failed
C7_Witness ==
    /\ Done /\ retErr = Nil
    /\ \E s, t, u \in FailureStages :
        /\ s # t
        /\ report.FailureCounts[s] >= 1
        /\ report.FailureCounts[t] >= 1
        /\ report.FailureCounts[u] = 0

(***************************************************************************)
(* C8. Results[i] is the result of processing the i-th discovered path:    *)
(* Results[i].FilePath is that path, it is the path call i handed to       *)
(* LoadModule, and results are only ever appended, never reordered.        *)
(***************************************************************************)
ResultsInDiscoveryOrder ==
    report.Results # <<>> =>
        LET d == Discovered IN
        /\ Len(report.Results) <= Len(d)
        /\ \A i \in 1..Len(report.Results) :
            /\ report.Results[i].FilePath = d[i]
            /\ \A j \in EventsOf(i, "LoadModule") : log[j].arg = d[i]

ResultsOnlyAppended ==
    \/ report'.Results = report.Results
    \/ /\ Len(report'.Results) = Len(report.Results) + 1
       /\ SubSeq(report'.Results, 1, Len(report.Results)) = report.Results

\* C8: results are in discovery order in every state, and every step leaves
\* the results as they are or appends one
C8_DiscoveryOrder == [](ResultsInDiscoveryOrder) /\ [][ResultsOnlyAppended]_vars

\* a returned report of three results
C8_Witness ==
    /\ Done /\ retErr = Nil
    /\ Len(report.Results) = 3
    /\ report.Results[1].FilePath # report.Results[3].FilePath

\* the LoadModule calls made for a path
LoadsOf(path) ==
    { j \in 1..Len(log) : log[j].op = "LoadModule" /\ log[j].arg = path }

(***************************************************************************)
(* C9. Every discovered file is processed exactly once and contributes     *)
(* exactly one result, whatever happened to the files before it: a failure *)
(* or a contained panic never ends the loop early.                         *)
(***************************************************************************)
C9_EveryFileOnce ==
    LET d == Discovered IN
    /\ \A j, k \in 1..Len(log) :
        (log[j].op = "LoadModule" /\ log[k].op = "LoadModule" /\ j # k) =>
            log[j].arg # log[k].arg
    /\ (Done /\ retErr = Nil) =>
        /\ Len(report.Results) = Len(d)
        /\ \A i \in 1..Len(d) :
            /\ Cardinality(LoadsOf(d[i])) = 1
            /\ Cardinality(EventsOf(i, "LoadModule")) = 1

\* a returned report in which the first file panicked, the second failed
\* with an error and the third passed
C9_Witness ==
    /\ Done /\ retErr = Nil
    /\ Len(report.Results) = 3
    /\ PanickedIn(1, "LoadModule")
    /\ ~report.Results[2].Success /\ ~PanicRaised(2)
    /\ report.Results[3].Success

(***************************************************************************)
(* C10. If file discovery fails, the batch runner returns an error, makes  *)
(* no LoadModule call, and the report it hands back has no results and no  *)
(* non-zero counter.                                                       *)
(***************************************************************************)
C10_DiscoveryFailure ==
    (fsErr # Nil /\ pc # "start") =>
        /\ Done
        /\ retErr # Nil
        /\ log = <<>>
        /\ report.Results = <<>>
        /\ report.TotalFiles = 0
        /\ report.Passed = 0
        /\ report.Failed = 0
        /\ \A s \in DOMAIN report.FailureCounts : report.FailureCounts[s] = 0

\* the batch runner has returned after os.ReadDir failed having read two
\* entries that would have been collected
C10_Witness ==
    /\ Done
    /\ fsErr # Nil
    /\ Len(CollectLoop(dirPath, fsEntries, 1, <<>>)) >= 2

\* the Execute calls call c made
ExecutesOf(c) == EventsOf(c, "Execute")

(***************************************************************************)
(* C11. For every module LoadModule returned without error, Execute is     *)
(* called exactly once, on that module, with the function name "process"   *)
(* and the single argument 1 (never twice at any moment, and once when the *)
(* call has returned); when LoadModule returned an error, returned no      *)
(* module or panicked, Execute is never called.                            *)
(***************************************************************************)
C11_ExecuteOnceWithProcess ==
    pc = "process" =>
        /\ Cardinality(ExecutesOf(idx)) <= 1
        /\ \A i \in ExecutesOf(idx) :
               /\ log[i].arg = <<"process", 1>>
               /\ Loaded(idx, log[i].handle)
        /\ AtReturn =>
               (\A h \in 1..idx : Loaded(idx, h) => Cardinality(ExecutesOf(idx)) = 1)

\* a batch whose first call returned without any Execute, LoadModule having
\* failed or panicked, and whose second call returns after its one Execute
C11_Witness ==
    /\ AtReturn
    /\ idx = 2
    /\ ExecutesOf(1) = {}
    /\ Cardinality(ExecutesOf(2)) = 1
    /\ PanickedIn(2, "Execute")

(***************************************************************************)
(* C12. When LoadModule and Execute both returned without error and        *)
(* nothing panicked, the result has Success = true, FailureStage = none,   *)
(* an empty ErrorMessage, and ReturnValues equal to the sequence Execute   *)
(* returned, element for element and in the same order.                    *)
(***************************************************************************)
C12_SuccessResult ==
    (AtReturn /\ ExecutesOf(idx) # {} /\ ErrorOf(idx).err = Nil /\ ~PanicRaised(idx)) =>
        /\ result.Success
        /\ result.FailureStage = StageNone
        /\ result.ErrorMessage = <<>>
        /\ \A i \in ExecutesOf(idx) : result.ReturnValues = log[i].out.returns

\* a call returns after an Execute that returned two distinct values
C12_Witness ==
    /\ AtReturn
    /\ ErrorOf(idx).err = Nil
    /\ ~PanicRaised(idx)
    /\ \E i \in ExecutesOf(idx) :
           Len(log[i].out.returns) = 2 /\ log[i].out.returns[1] # log[i].out.returns[2]

(***************************************************************************)
(* C13. In every result the file processor returns, ErrorMessage is        *)
(* non-empty if and only if Success is false, whatever error the runtime   *)
(* returned. The code breaks this for a RuntimeError whose Message is      *)
(* empty: the result fails with an empty ErrorMessage.                     *)
(***************************************************************************)
C13_MessageIffFailure ==
    AtReturn => ((result.ErrorMessage # <<>>) <=> ~result.Success)

(***************************************************************************)
(* C14. A result with Success = false never carries return values, also    *)
(* when the failure is a panic raised by Close after Execute had           *)
(* succeeded. The code breaks this: the recovery closure leaves the        *)
(* ReturnValues the success path had stored.                               *)
(***************************************************************************)
C14_FailedHasNoReturnValues ==
    (AtReturn /\ ~result.Success) => result.ReturnValues = <<>>

\* s occurs in m as a run of consecutive elements
Contains(m, s) ==
    \E k \in 0..(Len(m) - Len(s)) : SubSeq(m, k + 1, k + Len(s)) = s

\* the RuntimeError errors.As finds in a tagged error
TaggedLayer(err) == err[ErrorsAs(err)]

\* C15 as claimed: whenever LoadModule or Execute returned an error and no
\* panic was raised, ErrorMessage contains the full text of an untagged
\* error, and the Message of a tagged one together with its Cause.
C15_Original ==
    (AtReturn /\ ErrorOf(idx).err # Nil /\ ~PanicRaised(idx)) =>
        LET e == ErrorOf(idx).err IN
        IF IsTagged(e)
        THEN /\ Contains(result.ErrorMessage, TaggedLayer(e).Message)
             /\ Contains(result.ErrorMessage, TaggedLayer(e).Cause)
        ELSE Contains(result.ErrorMessage, ErrorText(e))

(***************************************************************************)
(* C15. Whenever LoadModule or Execute returned an error and no panic was  *)
(* raised during the call, ErrorMessage is, for an untagged error,         *)
(* "load failed: " or "execution failed: " followed by the full error      *)
(* text, and for a tagged RuntimeError exactly its Message: neither its    *)
(* Cause nor the text of an error wrapping it is reported.                 *)
(***************************************************************************)
C15_MessageKept ==
    (AtReturn /\ ErrorOf(idx).err # Nil /\ ~PanicRaised(idx)) =>
        LET e == ErrorOf(idx).err IN
        IF IsTagged(e)
        THEN result.ErrorMessage = TaggedLayer(e).Message
        ELSE /\ Contains(result.ErrorMessage, ErrorText(e))
             /\ result.ErrorMessage =
                    (IF ErrorOf(idx).site = StageLoad
                     THEN <<"load failed: ">>
                     ELSE <<"execution failed: ">>) \o ErrorText(e)

\* a batch whose first call returned after LoadModule gave an untagged
\* error, and whose second call returns after Execute gave a RuntimeError
\* that has a Cause
C15_Witness ==
    /\ AtReturn
    /\ idx = 2
    /\ ~PanicRaised(2)
    /\ ErrorOf(2).site = StageExecute
    /\ IsTagged(ErrorOf(2).err)
    /\ TaggedLayer(ErrorOf(2).err).Cause # <<>>
    /\ ErrorOf(1).site = StageLoad
    /\ ~IsTagged(ErrorOf(1).err)
    /\ ~PanicRaised(1)

(***************************************************************************)
(* C16. Close is idempotent and never fails: no call of Close panics       *)
(* (Close returns nothing, so it returns no error), and a call of Close on *)
(* a handle that was closed before leaves the handle, the way Close ended  *)
(* and every other variable as they were after the first call.             *)
(***************************************************************************)
C16_CloseIdempotent ==
    [][closeCalls' > closeCalls =>
          /\ ~closeOut'.panic.active
          /\ closeCalls >= 1 =>
                 /\ handle' = handle
                 /\ closeOut' = closeOut
                 /\ UNCHANGED <<batchVars, mainVars>>]_vars

\* Close has been called twice on a MockWasmModule
C16_Witness ==
    /\ closeCalls >= 2
    /\ handle.type = "MockWasmModule"
    /\ handle.CloseCalled

\* what the runtime did when call c made its call of kind o; the outcome
\* of a call that returns normally when call c made none
OutcomeOf(c, o) ==
    IF EventsOf(c, o) = {}
    THEN [handle |-> FALSE, returns |-> <<>>, err |-> Nil, panic |-> NoPanic]
    ELSE log[CHOOSE i \in EventsOf(c, o) : TRUE].out

\* processWasmFileWithRuntime (part_005:88-138) as a function of its
\* argument and of what LoadModule, Execute and Close do during the call
processWasmFileWithRuntime(filePath, lo, eo, co) ==
    LET r0 == InitResult(filePath)
        body ==
            IF lo.panic.active THEN [res |-> r0, panic |-> lo.panic]
            ELSE IF lo.err # Nil THEN ClassifyLoad(r0, lo.err)
            ELSE IF ~lo.handle THEN [res |-> r0, panic |-> Panic(NilDeref)]
            ELSE LET b == IF eo.panic.active THEN [res |-> r0, panic |-> eo.panic]
                          ELSE IF eo.err # Nil THEN ClassifyExecute(r0, eo.err)
                          ELSE [res |-> Succeed(r0, eo.returns), panic |-> NoPanic]
                 IN  [res |-> b.res,
                      panic |-> IF co.panic.active THEN co.panic ELSE b.panic]
    IN  IF body.panic.active THEN Recovered(body.res, body.panic.value) ELSE body.res

\* runFuzzerWithRuntime (main_stub.go:36-70) as a function of the directory
\* listing and of what the runtime did for each file: the report after the
\* files from the i-th on have been processed and aggregated into rep
RECURSIVE runFuzzerWithRuntime(_, _, _)
runFuzzerWithRuntime(fs, i, rep) ==
    IF i > Len(fs) THEN rep
    ELSE runFuzzerWithRuntime(fs, i + 1,
             Aggregate(rep, processWasmFileWithRuntime(fs[i],
                                OutcomeOf(i, "LoadModule"),
                                OutcomeOf(i, "Execute"),
                                OutcomeOf(i, "Close"))))

(***************************************************************************)
(* C17. Classification is deterministic: the report the batch runner       *)
(* returns is a function of the discovery sequence and of the outcomes the *)
(* runtime gave for each file, every result being computed from its own    *)
(* file and its own outcomes alone; so two runs given the same discovery   *)
(* sequence and the same outcomes return identical reports.                *)
(***************************************************************************)
C17_Deterministic ==
    (Done /\ retErr = Nil) =>
        LET s == RunStart(dirPath, fsEntries, fsErr) IN
        report = runFuzzerWithRuntime(s.files, 1, s.report)

\* a batch of three files has returned in which the runtime did the same
\* for the first and the third file (LoadModule returned an error), Execute
\* having returned values for the second
C17_Witness ==
    /\ Done
    /\ Len(report.Results) = 3
    /\ OutcomeOf(1, "LoadModule").err # Nil
    /\ OutcomeOf(1, "LoadModule") = OutcomeOf(3, "LoadModule")
    /\ report.Results[2].Success
    /\ report.Results[2].ReturnValues # <<>>
    /\ report.Results[1].ErrorMessage = report.Results[3].ErrorMessage
    /\ report.Results[1].ReturnValues = report.Results[3].ReturnValues

\* the process whose main is that of main.go has ended: it exited, died of
\* a panic or was killed by a signal (the process of the default build ends
\* with mpc = "returned")
Exited == mpc \in {"exited", "died", "killed"}

\* standard output has received the whole serialized report
ReportWritten ==
    \E i \in 1..Len(stdout) :
        /\ stdout[i].kind = "json"
        /\ stdout[i].complete
        /\ stdout[i].value = MarshalReport(report)

\* standard error has received one thing, the error object `obj`
OnlyErrorObject(obj) ==
    /\ Len(stderr) = 1
    /\ stderr[1].kind = "json"
    /\ stderr[1].complete
    /\ "error" \in DOMAIN stderr[1].value
    /\ stderr[1].value = obj

\* how os.Stat ended, if main called it
StatCalls == { i \in 1..Len(log) : log[i].op = "Stat" }
MissingArgument == Len(args) < 2
InaccessiblePath == \E i \in StatCalls : log[i].out.err # Nil
NotADirectory == \E i \in StatCalls : log[i].out.err = Nil /\ ~log[i].out.isDir
FailedRun == retErr # Nil

(***************************************************************************)
(* C18. When the process of the command-line driver (main of main.go) has  *)
(* ended, its exit status is zero if and only if                           *)
(* it wrote the whole serialized report to standard output; and after a    *)
(* missing argument, an inaccessible path, a path that is not a directory  *)
(* or a failed batch run, standard error holds the error object of that    *)
(* case and nothing else, standard output is empty and the exit status is  *)
(* not zero.                                                               *)
(***************************************************************************)
C18_ExitZeroIffReport ==
    Exited =>
        /\ (exitCode = 0) <=> ReportWritten
        /\ MissingArgument =>
               (OnlyErrorObject(UsageError) /\ stdout = <<>> /\ exitCode # 0)
        /\ InaccessiblePath =>
               /\ \E i \in StatCalls : OnlyErrorObject(AccessError(log[i].out.err))
               /\ stdout = <<>>
               /\ exitCode # 0
        /\ NotADirectory =>
               (OnlyErrorObject(NotDirError(args[2])) /\ stdout = <<>> /\ exitCode # 0)
        /\ FailedRun =>
               (OnlyErrorObject(RunError(retErr)) /\ stdout = <<>> /\ exitCode # 0)

\* the process has exited with status zero after a batch in which a file
\* failed to validate
C18_Witness ==
    /\ Exited
    /\ exitCode = 0
    /\ ReportWritten
    /\ report.TotalFiles >= 1
    /\ report.Failed >= 1
    /\ report.Results[1].FailureStage = StageValidate
    /\ report.Results[1].ErrorMessage = <<"validation failed: ">> \o ErrorText(NewError(<<"wasm error">>))

\* a call main made itself panicked
PanickedInMain == \E i \in 1..Len(log) : log[i].call = 0 /\ log[i].out.panic.active

\* the values of the panics raised by the calls main made itself
MainPanicValues ==
    { log[i].out.panic.value : i \in { j \in 1..Len(log) :
                                          log[j].call = 0 /\ log[j].out.panic.active } }

(***************************************************************************)
(* C19. A panic raised in main outside the file processor is recovered by  *)
(* main's deferred closure, exactly once: while it is in flight the        *)
(* closure is still pending, and the process ends only with exit status 1, *)
(* one recovery, and the fatal error object carrying the panic value as    *)
(* the only thing on standard error; the process never dies of a panic.    *)
(***************************************************************************)
C19_MainRecoversPanic ==
    /\ mpc # "died"
    /\ recovers <= 1
    /\ mainPanic.active => (mdefers # <<>> /\ Head(mdefers) = "recover")
    /\ recovers = 1 => PanickedInMain
    /\ (PanickedInMain /\ ~mainPanic.active) =>
           /\ mpc = "exited"
           /\ recovers = 1
           /\ exitCode = 1
           /\ \E v \in MainPanicValues : OnlyErrorObject(FatalError(v))

\* the process has exited after wasmedge.SetLogErrorLevel panicked
C19_Witness ==
    /\ mpc = "exited"
    /\ PanickedInMain
    /\ recovers = 1
    /\ exitCode = 1

\* LoadModule returned an error to call c
LoadFailed(c) == \E i \in EventsOf(c, "LoadModule") : log[i].out.err # Nil

\* the handles LoadModule has returned on which Close has not been called
LiveHandles ==
    { log[i].handle : i \in
        { j \in 1..Len(log) :
            /\ log[j].op = "LoadModule"
            /\ log[j].handle # NoHandle
            /\ \A k \in 1..Len(log) :
                   ~(log[k].op = "Close" /\ log[k].handle = log[j].handle) } }

\* the modules LoadModule has returned together with an error
HandlesWithError ==
    { log[j].handle : j \in { k \in 1..Len(log) :
                                 /\ log[k].op = "LoadModule"
                                 /\ log[k].handle # NoHandle
                                 /\ log[k].out.err # Nil } }

\* the failed result of a call to which LoadModule returned an error
LoadFailureResult(c) ==
    processWasmFileWithRuntime(files[c], OutcomeOf(c, "LoadModule"),
                               OutcomeOf(c, "Execute"), OutcomeOf(c, "Close"))

\* C20 as claimed: when LoadModule returns an error the function returns at
\* once with the classified failure, neither Execute nor Close is called on
\* any handle, and no handle remains live after the return.
C20_Original ==
    (pc = "process" /\ LoadFailed(idx)) =>
        /\ ppc = "defers"
        /\ ExecutesOf(idx) = {}
        /\ EventsOf(idx, "Close") = {}
        /\ AtReturn =>
               /\ LiveHandles = {}
               /\ ~result.Success
               /\ result = LoadFailureResult(idx)

(***************************************************************************)
(* C20. When LoadModule returns an error, processWasmFileWithRuntime goes  *)
(* straight to its return with a failed result: LoadModule stays the only  *)
(* runtime call of that call (neither Execute nor Close is called) and the *)
(* result is the classified failure (the recovered panic for a nil         *)
(* *RuntimeError).  No handle is live when it returns but the modules that *)
(* LoadModule returned together with an error, to this call or to an       *)
(* earlier one: these are never closed.                                    *)
(***************************************************************************)
C20_LoadErrorReturnsAtOnce ==
    (pc = "process" /\ LoadFailed(idx)) =>
        /\ ppc = "defers"
        /\ ExecutesOf(idx) = {}
        /\ EventsOf(idx, "Close") = {}
        /\ module = (IF idx \in HandlesWithError THEN idx ELSE NoHandle)
        /\ HandlesWithError \subseteq LiveHandles
        /\ AtReturn =>
               /\ LiveHandles = HandlesWithError
               /\ ~result.Success
               /\ result = LoadFailureResult(idx)

\* the second call of a batch returns after LoadModule gave it an error and
\* no module, the first call having loaded and closed a module
C20_Witness ==
    /\ AtReturn
    /\ idx = 2
    /\ LoadFailed(2)
    /\ Loaded(1, 1)
    /\ result.FailureStage = StageLoad
    /\ LiveHandles = {}

\* the second call of a batch returns after LoadModule gave it an error
\* together with a module, which stays live
C20_WitnessModuleWithError ==
    /\ AtReturn
    /\ idx = 2
    /\ LoadFailed(2)
    /\ LiveHandles = {2}

\* C21 as claimed: at most one module handle is live at any moment, the
\* handle of a file is released before the call for the file returns, hence
\* before LoadModule is called for the next file, and no handle is live when
\* the report is returned.
C21_Original ==
    LET live == LiveHandles IN
    /\ Cardinality(live) <= 1
    /\ (AtReturn \/ pc \in {"loop", "done"} \/ ppc = "load") => live = {}
    /\ \A h \in live : h = idx /\ pc = "process"

(***************************************************************************)
(* C21. Across a whole batch run at most one of the modules that           *)
(* LoadModule returned without an error is live (Close not yet called on   *)
(* it) at any moment: it is the module of the call in progress, it has had *)
(* its Close when processWasmFileWithRuntime returns for its file, hence   *)
(* between two calls of the file processor and when LoadModule is called   *)
(* for the next file, and none is live when the report is returned.  A     *)
(* module that LoadModule returned together with an error is never closed  *)
(* and stays live to the end of the run.                                   *)
(***************************************************************************)
C21_OneLiveHandle ==
    LET live == LiveHandles \ HandlesWithError IN
    /\ Cardinality(live) <= 1
    /\ (AtReturn \/ pc \in {"loop", "done"} \/ ppc = "load") => live = {}
    /\ \A h \in live : h = idx /\ h = module /\ pc = "process"
    /\ HandlesWithError \subseteq LiveHandles

\* the third call of a batch holds a live handle, the two calls before it
\* having loaded a module each, one of which failed in Execute
C21_Witness ==
    /\ idx = 3
    /\ LiveHandles = {3}
    /\ Loaded(1, 1)
    /\ Loaded(2, 2)
    /\ report.Failed >= 1
    /\ report.Passed >= 1

\* the run is over, the second file's module was loaded and closed, and the
\* module the first file's LoadModule returned with an error is still live
C21_WitnessModuleWithError ==
    /\ pc = "done"
    /\ Len(files) >= 2
    /\ Loaded(2, 2)
    /\ EventsOf(2, "Close") # {}
    /\ HandlesWithError = {1}
    /\ LiveHandles = {1}

\* a step of the file processor in which a panic in flight is taken out of
\* flight
RecoveryStep == pc = "process" /\ panicking.active /\ ~panicking'.active

\* a step of the file processor in which a panic comes into flight, or
\* replaces the one in flight
RaiseStep == pc = "process" /\ panicking'.active /\ panicking' # panicking

(***************************************************************************)
(* C22. Within one call of the file processor a panic is recovered at most *)
(* once and never raised again: the step that recovers a panic is the last *)
(* deferred call of the function and turns the result into a failure with  *)
(* stage execute, a panic is raised only while the recovery closure is     *)
(* still pending, and the call returns with no panic in flight; so also    *)
(* when Execute panics and the deferred Close panics as well, the caller   *)
(* gets one result, a failure with stage execute.                          *)
(***************************************************************************)
C22_RecoveredOnce ==
    /\ [][RecoveryStep =>
             /\ defers' = <<>>
             /\ ppc' = "defers"
             /\ result' = [result EXCEPT !.Success = FALSE,
                                         !.FailureStage = StageExecute,
                                         !.ErrorMessage = PanicPrefix \o panicking.value]]_vars
    /\ [][RaiseStep => (defers' # <<>> /\ defers'[Len(defers')] = "recover")]_vars
    /\ [](AtReturn => ~panicking.active)
    /\ []((AtReturn /\ PanickedIn(idx, "Execute") /\ PanickedIn(idx, "Close")) =>
             /\ ~result.Success
             /\ result.FailureStage = StageExecute
             /\ Len(report.Results) = idx - 1)
    /\ [][(AtReturn /\ pc' = "loop") =>
             /\ Len(report'.Results) = Len(report.Results) + 1
             /\ report'.Results[Len(report'.Results)] = result]_vars

\* a call has returned to the loop with its one result after Execute
\* panicked and the deferred Close panicked as well
C22_Witness ==
    /\ pc = "loop"
    /\ idx = 2
    /\ PanickedIn(1, "Execute")
    /\ PanickedIn(1, "Close")
    /\ Len(report.Results) = 1
    /\ report.Results[1].FailureStage = StageExecute

(***************************************************************************)
(* C27. Provided the program keeps running and every runtime call returns  *)
(* or panics, a batch run always terminates: the batch runner eventually   *)
(* returns, and when it returns a report without error the loop has made   *)
(* exactly len(files) iterations, one call of the file processor and one   *)
(* result for each file.                                                   *)
(***************************************************************************)
C27_Terminates ==
    /\ <>Done
    /\ [](( Done /\ retErr = Nil) =>
             /\ idx = Len(files) + 1
             /\ Len(report.Results) = Len(files)
             /\ Cardinality({ i \in 1..Len(log) : log[i].op = "LoadModule" }) = Len(files))

\* the batch runner has returned the report of a batch of three files
C27_Witness ==
    /\ Done
    /\ retErr = Nil
    /\ Len(files) = 3
    /\ Len(report.Results) = 3

(***************************************************************************)
(* C28. Every failed result processWasmFileWithRuntime returns has a       *)
(* FailureStage among load, validate, instantiate and execute, and the key *)
(* set of a report's FailureCounts is always exactly those four stages.    *)
(* The code breaks this: it copies the Stage of a RuntimeError unchecked,  *)
(* so a tag outside the four becomes the result's stage and a fifth key.   *)
(***************************************************************************)
C28_StageAmongFour ==
    /\ (AtReturn /\ ~result.Success) => result.FailureStage \in FailureStages
    /\ DOMAIN report.FailureCounts = FailureStages

\* C29 as claimed: if LoadModule returned a module without error, a failure
\* of the file is never reported with stage load, validate or instantiate.
C29_ExecuteFailureIsExecute ==
    (AtReturn /\ Loaded(idx, idx) /\ ~result.Success) =>
        result.FailureStage \notin {StageLoad, StageValidate, StageInstantiate}

(***************************************************************************)
(* C29. If LoadModule returned a module without error for a file, the      *)
(* file's result is a success with stage none exactly when Execute         *)
(* returned no error and nothing panicked; otherwise it is a failure whose *)
(* stage is execute if a panic was raised or Execute's error carries no    *)
(* stage tag, and the Stage of the RuntimeError that Execute's error is or *)
(* wraps if it carries one, be it load, validate or instantiate.           *)
(***************************************************************************)
C29_StageAfterLoad ==
    (AtReturn /\ Loaded(idx, idx)) =>
        LET e == ErrorOf(idx) IN
        /\ result.Success <=> (e.err = Nil /\ ~PanicRaised(idx))
        /\ result.Success => result.FailureStage = StageNone
        /\ ~result.Success =>
               result.FailureStage =
                   IF PanicRaised(idx) THEN StageExecute
                   ELSE IF IsTagged(e.err) THEN TagOf(e.err)
                   ELSE StageExecute

\* a module was loaded, Execute returned a RuntimeError tagged load, nothing
\* panicked, and the result is a failure with stage load
C29_Witness ==
    /\ AtReturn
    /\ Loaded(idx, idx)
    /\ ~PanicRaised(idx)
    /\ ErrorOf(idx).site = StageExecute
    /\ IsTagged(ErrorOf(idx).err)
    /\ TagOf(ErrorOf(idx).err) = StageLoad
    /\ ~result.Success
    /\ result.FailureStage = StageLoad

\* the counters the loop keeps: Passed, and FailureCounts at the four stages
Counters(rep) ==
    [k \in FailureStages \cup {"passed"} |->
        IF k = "passed" THEN rep.Passed ELSE rep.FailureCounts[k]]

\* the entries of Results that succeeded
PassedResults == { i \in 1..Len(report.Results) : report.Results[i].Success }

(***************************************************************************)
(* C30. In every returned report FailureCounts[s] is, for each of the four *)
(* stages s, the number of failed entries of Results with stage s, and     *)
(* Passed is the number of successful entries; and each loop iteration     *)
(* raises exactly one of these five counters by exactly one and leaves the *)
(* results appended before unchanged. The code breaks the second part for  *)
(* a failed result whose stage is none of the four: the iteration raises   *)
(* none of the five counters.                                              *)
(***************************************************************************)
C30_CountersMatchResults ==
    /\ [](Done =>
             /\ \A s \in FailureStages :
                    report.FailureCounts[s] = Cardinality(FailedAt(s))
             /\ report.Passed = Cardinality(PassedResults))
    /\ [][(AtReturn /\ pc' = "loop") =>
             /\ \E k \in DOMAIN Counters(report) :
                    /\ Counters(report')[k] = Counters(report)[k] + 1
                    /\ \A j \in DOMAIN Counters(report) \ {k} :
                           Counters(report')[j] = Counters(report)[j]
             /\ SubSeq(report'.Results, 1, Len(report.Results)) = report.Results]_vars

(***************************************************************************)
(* Vocabulary of the properties of the four-stage file processor           *)
(***************************************************************************)
IsStageCall(e) == \E k \in 1..Len(StageCalls) : StageCalls[k] = e.op

\* the stage calls made so far, in the order they were made
StageLog == SelectSeq(log, IsStageCall)

\* the stage the k-th stage call belongs to: FindFunction and Invoke are
\* both the stage execute
NominalStage(k) ==
    <<StageLoad, StageValidate, StageInstantiate, StageExecute, StageExecute>>[k]

\* the stage call returned an error, or found no function to execute
StageCallFailed(e) ==
    /\ ~e.out.panic.active
    /\ e.out.err # Nil \/ (e.op = "FindFunction" /\ ~e.out.found)

\* a call made so far has panicked, a deferred Release included
PanicRaisedInStages == \E i \in 1..Len(log) : log[i].out.panic.active

\* the stage calls are made in the order load, validate, instantiate,
\* execute, each at most once, and none after one that failed or panicked
StagesInOrder(s) ==
    /\ Len(s) <= Len(StageCalls)
    /\ \A k \in 1..Len(s) : s[k].op = StageCalls[k]
    /\ \A k \in 1..(Len(s) - 1) : ~StageCallFailed(s[k]) /\ ~s[k].out.panic.active

\* C24 as claimed: the stages run in order, the first stage that returns an
\* error determines FailureStage, and no stage is called after a failure.
C24_Original ==
    LET s == StageLog IN
        /\ StagesInOrder(s)
        /\ AtReturn
           => \A k \in 1..Len(s) :
                  StageCallFailed(s[k]) => result.FailureStage = NominalStage(k)

(***************************************************************************)
(* C24. In the four-stage processWasmFile the stage calls are made in the  *)
(* order load, validate, instantiate, execute, and none is made after one  *)
(* that failed.  If no call panics, the deferred Release calls included,   *)
(* the stage that returned an error is the FailureStage of the result; if  *)
(* a call panics, FailureStage is execute.                                 *)
(***************************************************************************)
C24_StagesInOrder ==
    LET s == StageLog IN
        /\ StagesInOrder(s)
        /\ AtReturn
           => IF PanicRaisedInStages
              THEN result.FailureStage = StageExecute
              ELSE \A k \in 1..Len(s) :
                       StageCallFailed(s[k]) => result.FailureStage = NominalStage(k)

\* Validate returned an error after LoadFile had succeeded, nothing
\* panicked, and the call has run its deferred calls
C24_Witness ==
    /\ AtReturn
    /\ ~PanicRaisedInStages
    /\ Len(StageLog) = 2
    /\ StageCallFailed(StageLog[2])
    /\ result.FailureStage = StageValidate
    /\ EventsOf(idx, "Release") # {}

\* the call yielded a resource whose Release was deferred
IsAcquisition(e) ==
    /\ e.op # "Release"
    /\ e.arg = ResourceOf(e.op)
    /\ ResourceOf(e.op) # ""
    /\ e.out.err = Nil
    /\ ~e.out.panic.active

IsRelease(e) == e.op = "Release"

\* the resources acquired so far, in the order of their acquisition
AcquiredLog == SelectSeq(log, IsAcquisition)

\* the Release calls made so far, in the order they were made
ReleaseLog == SelectSeq(log, IsRelease)

(***************************************************************************)
(* C25. In the four-stage processWasmFile every resource that was acquired *)
(* is released exactly once by the time the call returns, on every exit    *)
(* path; the releases are made in the reverse order of the acquisitions;   *)
(* a resource that was not acquired is never released.                     *)
(***************************************************************************)
C25_ReleasedOnceInReverse ==
    LET acq == AcquiredLog
        rel == ReleaseLog
    IN  /\ \A j, k \in 1..Len(acq) : acq[j].arg = acq[k].arg => j = k
        /\ Len(rel) <= Len(acq)
        /\ \A k \in 1..Len(rel) : rel[k].arg = acq[Len(acq) + 1 - k].arg
        /\ rel # <<>> => ppc = "defers"
        /\ AtReturn => Len(rel) = Len(acq)

\* all seven resources were acquired, Invoke panicked, a Release panicked
\* too, and the call has run its deferred calls
C25_Witness ==
    /\ AtReturn
    /\ Len(AcquiredLog) = Len(Resources)
    /\ Len(ReleaseLog) = Len(Resources)
    /\ PanickedIn(idx, "Invoke")
    /\ PanickedIn(idx, "Release")

\* the module was loaded, validated and instantiated, and FindFunction
\* returned nil for "process"
ExportIsMissing ==
    LET s == StageLog IN
        /\ Len(s) >= 4
        /\ s[4].op = "FindFunction"
        /\ s[4].arg = <<"process">>
        /\ StageCallFailed(s[4])

\* C26 as claimed: a module without the export "process" yields
\* Success=false, FailureStage=execute and the message that the function
\* was not found in the module exports, and Invoke is never called.
C26_Original ==
    ExportIsMissing
    => /\ EventsOf(idx, "Invoke") = {}
       /\ AtReturn => /\ result.Success = FALSE
                      /\ result.FailureStage = StageExecute
                      /\ Contains(result.ErrorMessage, ExportNotFound)

(***************************************************************************)
(* C26. In the four-stage processWasmFile, for a module that loads,        *)
(* validates and instantiates but has no export "process", Invoke is never *)
(* called and the result has Success=false and FailureStage=execute; its   *)
(* message is that the function was not found in the module exports if no  *)
(* deferred Release panics, and a "panic recovered: " message otherwise.   *)
(***************************************************************************)
C26_MissingExport ==
    ExportIsMissing
    => /\ EventsOf(idx, "Invoke") = {}
       /\ ppc = "defers"
       /\ AtReturn => /\ result.Success = FALSE
                      /\ result.FailureStage = StageExecute
                      /\ result.ReturnValues = <<>>
                      /\ IF PanickedIn(idx, "Release")
                         THEN IsPrefix(PanicPrefix, result.ErrorMessage)
                         ELSE result.ErrorMessage = ExportNotFound

\* the export is missing, every Release returned, and the call has run its
\* deferred calls
C26_Witness ==
    /\ AtReturn
    /\ ExportIsMissing
    /\ ~PanickedIn(idx, "Release")
    /\ Len(ReleaseLog) = Len(Resources)
    /\ result.ErrorMessage = ExportNotFound

(***************************************************************************)
(* The runtimes that drive the collapsed file processor.                   *)
(*                                                                         *)
(* The WasmEdgeRuntime of the repository (part_005:40-84): its LoadModule  *)
(* returns a module and no error for every path, its Execute returns an    *)
(* untagged error, and its Close has an empty body.                        *)
(*                                                                         *)
(* The MockWasmRuntime of the tests (part_004:34-60), whose LoadModule and *)
(* Execute are the functions a test stores in LoadModuleFunc and           *)
(* ExecuteFunc: one that returns a RuntimeError tagged with a given stage, *)
(* one that returns an untagged error, one that returns a module or        *)
(* values, one that panics; its Close only records that it was called.     *)
(***************************************************************************)
\* the text of the error of the placeholder executeWasmFunction
NotImplemented == <<"not implemented - use processWasmFile for real execution">>

\* what loadWasmEdgeModule returns: a module and no error
loadWasmEdgeModule == [handle |-> TRUE, err |-> Nil, panic |-> NoPanic]

\* what executeWasmFunction returns: no values and an untagged error
executeWasmFunction ==
    [returns |-> <<>>, err |-> NewError(NotImplemented), panic |-> NoPanic]

\* Close of a module of either runtime: it returns, whatever the module held
RuntimeClose == [panic |-> NoPanic]

\* what the collapsed file processor returns for the file when driven by
\* the WasmEdgeRuntime
WasmEdgeResult ==
    processWasmFileWithRuntime(files[idx], loadWasmEdgeModule,
                               executeWasmFunction, RuntimeClose)

\* LoadModuleFunc of part_004:469-476: no module and a RuntimeError tagged
\* with the stage, its message naming the stage
LoadModuleFuncTagged(stage) ==
    [handle |-> FALSE,
     err |-> NewRuntimeError(stage, <<"test error at ", stage>>, <<>>),
     panic |-> NoPanic]

\* LoadModuleFunc of part_004:119-121: the module and no error
LoadModuleFuncModule == [handle |-> TRUE, err |-> Nil, panic |-> NoPanic]

\* LoadModuleFunc of part_004:184-186: panic(v)
LoadModuleFuncPanic(v) == [handle |-> FALSE, err |-> Nil, panic |-> Panic(v)]

\* ExecuteFunc of part_004:114-116: no values and errors.New(message)
ExecuteFuncError(message) ==
    [returns |-> <<>>, err |-> NewError(message), panic |-> NoPanic]

\* ExecuteFunc of part_004:388-392: the values and no error
ExecuteFuncReturn(values) == [returns |-> values, err |-> Nil, panic |-> NoPanic]

\* ExecuteFunc of part_004:190-192: panic(v)
ExecuteFuncPanic(v) == [returns |-> <<>>, err |-> Nil, panic |-> Panic(v)]

(***************************************************************************)
(* The runtime the two processors are compared under.  The repository has  *)
(* no runtime that drives the SDK; the comparison supposes one, and it is  *)
(* stated here as the mock runtime whose functions answer as the SDK calls *)
(* of the four-stage processor ended: LoadModule stands for the load,      *)
(* validate and instantiate phases and returns the tagged error of the     *)
(* phase that failed, Execute stands for the lookup and the invocation of  *)
(* the export, a panic of a phase call is a panic of the function, and no  *)
(* Release of the SDK is seen through Close.                               *)
(***************************************************************************)
\* the SDK calls LoadModule stands for
LoadPhaseCalls == SubSeq(EngineCalls, 1, 8)

IsLoadPhaseCall(e) == \E k \in 1..Len(LoadPhaseCalls) : LoadPhaseCalls[k] = e.op

IsExecutePhaseCall(e) == e.op \in {"FindFunction", "Invoke"}

\* the tag of the error of a phase
SubPhaseTag(op) ==
    CASE op = "LoadFile" -> StageLoad
      [] op = "Validate" -> StageValidate
      [] op = "Instantiate" -> StageInstantiate

\* what LoadModule of the supposed runtime does, given the SDK calls made
TaggingLoadModule ==
    LET s == SelectSeq(log, IsLoadPhaseCall)
        last == s[Len(s)]
    IN  IF s = <<>> THEN LoadModuleFuncModule
        ELSE IF last.out.panic.active THEN LoadModuleFuncPanic(last.out.panic.value)
        ELSE IF last.out.err # Nil THEN LoadModuleFuncTagged(SubPhaseTag(last.op))
        ELSE LoadModuleFuncModule

\* what Execute("process", 1) of the supposed runtime does
TaggingExecute ==
    LET s == SelectSeq(log, IsExecutePhaseCall)
        last == s[Len(s)]
    IN  IF s = <<>> THEN ExecuteFuncReturn(<<>>)
        ELSE IF last.out.panic.active THEN ExecuteFuncPanic(last.out.panic.value)
        ELSE IF last.op = "FindFunction" /\ ~last.out.found
        THEN ExecuteFuncError(ExportNotFound)
        ELSE IF last.out.err # Nil
        THEN ExecuteFuncError(PrefixOfCall(last.op) \o ErrorText(last.out.err))
        ELSE ExecuteFuncReturn(last.out.returns)

\* what the collapsed file processor returns for the file when driven by
\* the supposed runtime
CollapsedResult ==
    processWasmFileWithRuntime(files[idx], TaggingLoadModule, TaggingExecute,
                               RuntimeClose)

\* C23 as claimed: for every outcome of the SDK calls, a panic at any step
\* included, the four-stage processWasmFile and processWasmFileWithRuntime
\* driven by a runtime whose LoadModule tags its error with the phase that
\* failed have the same Success and the same FailureStage.
C23_Original ==
    AtReturn
    => LET r == CollapsedResult IN
           /\ r.Success = result.Success
           /\ r.FailureStage = result.FailureStage

(***************************************************************************)
(* C23. For every outcome of the SDK calls in which no deferred Release    *)
(* panics (load fails, validate fails, instantiate fails, export missing,  *)
(* invoke fails, invoke succeeds, a panic of a stage or acquisition call)  *)
(* the result of the four-stage processWasmFile and the result of          *)
(* processWasmFileWithRuntime, driven by a runtime whose LoadModule tags   *)
(* its error with the phase that failed and whose Close never panics, have *)
(* the same Success and the same FailureStage.  If a deferred Release      *)
(* panics, the four-stage result has Success=false and                     *)
(* FailureStage=execute whatever the collapsed result is.  Driven by the   *)
(* WasmEdgeRuntime of the repository, processWasmFileWithRuntime returns   *)
(* Success=false with FailureStage=execute for every file, the message     *)
(* being "execution failed: " followed by the text of its Execute's error. *)
(***************************************************************************)
C23_SameSuccessAndStage ==
    AtReturn
    => LET r == CollapsedResult
           w == WasmEdgeResult
       IN  /\ result.Success = (r.Success /\ ~PanickedIn(idx, "Release"))
           /\ result.FailureStage =
                  IF PanickedIn(idx, "Release") THEN StageExecute
                  ELSE r.FailureStage
           /\ ~w.Success
           /\ w.FailureStage = StageExecute
           /\ w.ErrorMessage = <<"execution failed: ">> \o NotImplemented

\* Instantiate failed, nothing panicked, and both processors report
\* instantiate
C23_Witness ==
    /\ AtReturn
    /\ ~PanicRaisedInStages
    /\ Len(StageLog) = 3
    /\ StageCallFailed(StageLog[3])
    /\ result.FailureStage = StageInstantiate
    /\ CollapsedResult.FailureStage = StageInstantiate
    /\ ~CollapsedResult.Success

\* Invoke returned its values, a deferred Release panicked, and the
\* four-stage result is a failure at execute where the collapsed is a success
C23_WitnessReleasePanic ==
    /\ AtReturn
    /\ Len(StageLog) = 5
    /\ ~StageCallFailed(StageLog[5])
    /\ ~StageLog[5].out.panic.active
    /\ PanickedIn(idx, "Release")
    /\ ~result.Success
    /\ result.FailureStage = StageExecute
    /\ CollapsedResult.Success
    /\ CollapsedResult.FailureStage = StageNone

(***************************************************************************)
(* The two file processors side by side: a call of                         *)
(* processWasmFileWithRuntime made by the batch runner, or a call of the   *)
(* four-stage processWasmFile, whose result the loop aggregates likewise   *)
(* (main.go:141-157).                                                      *)
(***************************************************************************)
SpecProcessors == (Init \/ InitStages) /\ [][Next \/ NextStages]_vars

\* a step within one call of a file processor that changes its result
ResultStep == pc = "process" /\ pc' = "process" /\ result' # result

(***************************************************************************)
(* C31. During a call of the file processor, of either form, and in every  *)
(* result it has returned, on every exit path, FilePath is the path passed *)
(* in and FileName its base name; a step that classifies an error or       *)
(* recovers a panic changes Success, FailureStage and ErrorMessage only,   *)
(* and no step of the call changes FilePath or FileName.                   *)
(***************************************************************************)
C31_IdentifyingFieldsKept ==
    /\ [](pc = "process"
          => /\ result.FilePath = files[idx]
             /\ result.FileName = Base(files[idx]))
    /\ [](\A c \in 1..Len(report.Results) :
              /\ report.Results[c].FilePath = files[c]
              /\ report.Results[c].FileName = Base(files[c]))
    /\ [][ResultStep
          => /\ result'.FilePath = result.FilePath
             /\ result'.FileName = result.FileName
             /\ ~result'.Success => result'.ReturnValues = result.ReturnValues]_vars

\* a call of the collapsed file processor has recovered a panic after
\* Execute had returned an error, and has run its deferred calls
C31_Witness ==
    /\ AtReturn
    /\ \E i \in EventsOf(idx, "Execute") : log[i].out.err # Nil
    /\ PanickedIn(idx, "Close")
    /\ IsPrefix(PanicPrefix, result.ErrorMessage)
    /\ result.FilePath = files[idx]
    /\ result.FileName = Base(files[idx])

\* the same for the four-stage file processor: Validate returned an error
\* and a deferred Release panicked
C31_WitnessStages ==
    /\ AtReturn
    /\ Len(StageLog) = 2
    /\ StageCallFailed(StageLog[2])
    /\ PanickedIn(idx, "Release")
    /\ IsPrefix(PanicPrefix, result.ErrorMessage)
    /\ result.FilePath = files[idx]
    /\ result.FileName = Base(files[idx])

=============================================================================
